---------------------------- MODULE Spec2Model ----------------------------
(***************************************************************************)
(* Livia: a Slack chat-assistant gateway.                                  *)
(*                                                                         *)
(* The module models these parts of the program, each with its own         *)
(* specification over the shared variables:                                *)
(*   Spec       the event handlers and the shared dedup set                *)
(*              (server/event_handlers.py)                                 *)
(*   SpecPM     MessageProcessor.process_message: the semaphore-gated      *)
(*              section, its error/retry branch and the finalization       *)
(*              (server/message_processor.py); FairSpecPM adds fairness    *)
(*   SpecGuard  the input guardrail (agent/guardrails.py)                  *)
(*   SpecStream the native streaming loop of agent.processor               *)
(*              (agent/processor.py)                                       *)
(*   SpecDetect get_mcp_by_keywords (tools/mcp/zapier_mcps.py)             *)
(*   SpecThink  MessageProcessor.process_think_message                     *)
(*   SpecMedia  MessageProcessor.process_message up to the semaphore, with *)
(*              the audio and document attachments                         *)
(*   SpecSplit  MessageProcessor._split_long_message                       *)
(*   SpecTokens the token accounting of MessageProcessor.process_message   *)
(*              and the context warning appended to the response           *)
(*   SpecServer SlackSocketModeServer.start_async with the two tasks it    *)
(*              creates, and stop_async (server/slack_server.py)           *)
(*   SpecPending the +think command and its selection, with the pending    *)
(*              prompt kept by EventHandlers (server/event_handlers.py)    *)
(*   SpecExtract the input built by process_message and the text the      *)
(*              guardrail extracts from it (agent/processor.py,            *)
(*              agent/guardrails.py)                                       *)
(*   SpecCache  MCPCacheManager: register_server, check_and_refresh_cache  *)
(*              and invalidate_cache (tools/mcp/cache_manager.py)          *)
(*   SpecStores _process_document_files run by the document messages of    *)
(*              one thread (server/message_processor.py)                   *)
(***************************************************************************)
EXTENDS Integers, Sequences, FiniteSets, TLC

(***************************************************************************)
(* Bounds of the model.                                                    *)
(***************************************************************************)
\* concurrent handler invocations (asyncio tasks running a handler)
MaxTasks == 2
\* events delivered by the platform in one behaviour
MaxDeliveries == 3
\* event timestamps per channel
MaxTs == 1
\* the prune threshold of handle_app_mention_events (10000 in the code),
\* scaled down so that the prune happens within MaxDeliveries
PruneThreshold == 1
\* the number of keys one prune discards (1000 in the code), scaled alike
PruneBatch == 1

\* LIVIA_MAX_CONCURRENCY, the capacity of agent_semaphore (5 when unset)
max_concurrency == 2
\* process_message invocations in one behaviour
MaxInvocations == 3

\* events of one run of the agent's stream
MaxEvents == 4
\* fragments a message text is put together from
MaxFragments == 2
\* parts a deep-analysis response is posted in
MaxParts == 3
\* audio attachments of one message
MaxAudio == 2
\* pieces (letters, separators) a message to split is made of
MaxPieces == 5
\* largest max_length tried, the 3000 of the program scaled down
MaxLength == 4
\* messages processed in one thread
MaxMessages == 2
\* the most tokens count_tokens finds in one text
MaxTokens == 2
\* the context budget of the model, scaled down so that a thread reaches it
\* within MaxMessages
TokenBudget == 4
\* conversations (user and thread) that issue a +think command
MaxConversations == 3
\* messages carrying documents in one thread
MaxDocMessages == 3
\* characters of a user message and images attached to it
MaxMessageLen == 2
MaxImages == 2
\* the clock of the cache manager, the ttl of the registered server (both in
\* the same unit) and the checks made
MaxClock == 5
RegisteredTtl == 2
MaxChecks == 2

VARIABLES
    \* ---- server/config.py, server/event_handlers.py
    processed_messages, \* config.processed_messages: the shared dedup set
    agent,              \* config.agent: "ready" when set_global_agent gave it an agent, "none" for None
    hpc,                \* per handler task: where the coroutine stands
    hev,                \* per handler task: the event it was called with
    delivered,          \* events delivered so far
    watched,            \* history: the key the three counters below follow
    admitted,           \* history: admissions of the watched key since it last entered the set
    responses,          \* history: pipeline runs for the watched key that answered the user
    evictions,          \* history: times a prune discarded the watched key
    \* ---- server/message_processor.py, MessageProcessor.process_message
    ppc,                \* per invocation: where the coroutine stands
    sem_value,          \* agent_semaphore._value
    sem_waiters,        \* agent_semaphore._waiters, in arrival order
    sem_woken,          \* the waiters whose future is done: the slot is theirs
    _retry_count,       \* MessageProcessor._retry_count; 0: the attribute is absent
    user_error_msg,     \* per invocation: the local user_error_msg
    pwatch,             \* history: the invocation the h* variables follow
    hcause,             \* history: the first error its except branch caught
    hmsg,               \* history: the text its user sees in the thread
    hsleeps,            \* history: the backoff delays it slept
    hruns,              \* history: times it ran the gated pipeline
    hwaited,            \* history: it had to wait for a slot
    \* ---- agent/guardrails.py, professional_content_guardrail
    g_pc,               \* where the guardrail coroutine stands
    g_input,            \* input_text: its length, whether it holds a blocklisted term
    g_output,           \* the GuardrailFunctionOutput returned
    \* ---- agent/processor.py, process_message
    s_pc,               \* where the coroutine stands
    mcp_key,            \* detect_zapier_mcp_needed(message): "none" or a key
    full_response,      \* the local full_response, a sequence of characters
    tool_calls,         \* the local tool_calls
    s_result,           \* the dict returned
    cb_log,             \* history: the calls of stream_callback, in order
    consumed,           \* history: the stream events taken so far, in order
    trip_at,            \* history: where the guardrail tripwire was raised
    attempts,           \* history: the tiers awaited, their outcome, the error logged
    \* ---- tools/mcp/zapier_mcps.py, get_mcp_by_keywords
    d_pc,               \* "idle" or "returned"
    d_message,          \* the argument, a sequence of characters
    d_result,           \* the integration key returned, "None" for None
    \* ---- server/message_processor.py, process_think_message
    t_pc,               \* where the coroutine stands
    t_args,             \* improve: improve_prompt and thread_history; client: client given
    t_todo,             \* the parts of the response still to post
    t_posts,            \* the messages posted with say, in order
    t_edits,            \* the chat_update calls made
    t_stages,           \* history: the model stages invoked, in order
    t_tripped,          \* history: the stage whose guardrail tripped
    t_say_failed,       \* history: a say raised
    \* ---- server/message_processor.py, process_message up to the semaphore
    m_pc,               \* where the coroutine stands
    m_in,               \* the arguments: text, audio files, documents, history
    context_input,      \* the local context_input, a sequence of items
    transcriptions,     \* the local transcriptions
    doc_result,         \* what _process_document_files returned
    thread_vector_stores, \* self.thread_vector_stores has the thread's key
    m_says,             \* history: calls of say
    m_edits,            \* history: calls of chat_update
    m_outcomes,         \* history: what each transcription gave
    m_failed,           \* history: the attachment steps that failed
    m_cause,            \* history: what made process_message return early or raise
    m_stores0,          \* history: thread_vector_stores at the call
    \* _split_long_message
    sp_pc,              \* "idle", "done"
    sp_message,         \* the argument message
    sp_max_length,      \* the argument max_length
    sp_parts,           \* the list returned
    \* ---- server/message_processor.py, the token accounting of process_message
    thread_tokens,      \* the context manager's running total of the thread
    tk_log,             \* history: one record per message processed in the thread
    \* ---- server/slack_server.py, SlackSocketModeServer.start_async
    srv_pc,             \* where start_async stands
    srv_tasks,          \* the tasks start_async created: state, cancel() called, awaited
    _shutdown_event,    \* self._shutdown_event is set
    stop_pc,            \* where stop_async stands
    \* ---- server/event_handlers.py, _handle_think_command and handle_think_selection
    pending_think,      \* the pending prompt kept by EventHandlers and where each conversation stands
    \* ---- server/message_processor.py, _process_document_files run by several messages of a thread
    doc_stores,         \* the thread's entry of thread_vector_stores and where each document message stands
    \* ---- agent/processor.py input preparation and agent/guardrails.py text extraction
    g_extract,          \* the input of one run on its way to the classifier: the message, the input built from it and the text extracted
    \* ---- tools/mcp/cache_manager.py, MCPCacheManager
    mcp_cache           \* MCPCacheManager for one server name: the clock, cache_stats and last_refresh, the calls suspended and the calls returned

varsEvents == <<processed_messages, agent, hpc, hev, delivered, watched,
                admitted, responses, evictions>>

varsPM == <<ppc, sem_value, sem_waiters, sem_woken, _retry_count, user_error_msg,
            pwatch, hcause, hmsg, hsleeps, hruns, hwaited>>

varsGuard == <<g_pc, g_input, g_output>>

varsStream == <<s_pc, mcp_key, full_response, tool_calls, s_result, cb_log,
                consumed, trip_at, attempts>>

varsDetect == <<d_pc, d_message, d_result>>

varsThink == <<t_pc, t_args, t_todo, t_posts, t_edits, t_stages, t_tripped,
               t_say_failed>>

varsMedia == <<m_pc, m_in, context_input, transcriptions, doc_result,
               thread_vector_stores, m_says, m_edits, m_outcomes, m_failed, m_cause,
               m_stores0>>

varsSplit == <<sp_pc, sp_message, sp_max_length, sp_parts>>

varsTokens == <<thread_tokens, tk_log>>

varsServer == <<srv_pc, srv_tasks, _shutdown_event, stop_pc>>

varsPending == <<pending_think>>

varsStores == <<doc_stores>>

varsExtract == <<g_extract>>

varsCache == <<mcp_cache>>

vars == <<varsEvents, varsPM, varsGuard, varsStream, varsDetect, varsThink,
          varsMedia, varsSplit, varsTokens, varsServer, varsPending,
          varsStores, varsExtract, varsCache>>

\* the variables each part leaves alone
outsideEvents ==
    <<varsPM, varsGuard, varsStream, varsDetect, varsThink, varsMedia,
     varsSplit, varsTokens, varsServer, varsPending, varsStores,
     varsExtract, varsCache>>

outsidePM ==
    <<varsEvents, varsGuard, varsStream, varsDetect, varsThink, varsMedia,
     varsSplit, varsTokens, varsServer, varsPending, varsStores,
     varsExtract, varsCache>>

outsideGuard ==
    <<varsEvents, varsPM, varsStream, varsDetect, varsThink, varsMedia,
     varsSplit, varsTokens, varsServer, varsPending, varsStores,
     varsExtract, varsCache>>

outsideStream ==
    <<varsEvents, varsPM, varsGuard, varsDetect, varsThink, varsMedia,
     varsSplit, varsTokens, varsServer, varsPending, varsStores,
     varsExtract, varsCache>>

outsideDetect ==
    <<varsEvents, varsPM, varsGuard, varsStream, varsThink, varsMedia,
     varsSplit, varsTokens, varsServer, varsPending, varsStores,
     varsExtract, varsCache>>

outsideThink ==
    <<varsEvents, varsPM, varsGuard, varsStream, varsDetect, varsMedia,
     varsSplit, varsTokens, varsServer, varsPending, varsStores,
     varsExtract, varsCache>>

outsideMedia ==
    <<varsEvents, varsPM, varsGuard, varsStream, varsDetect, varsThink,
     varsSplit, varsTokens, varsServer, varsPending, varsStores,
     varsExtract, varsCache>>

outsideSplit ==
    <<varsEvents, varsPM, varsGuard, varsStream, varsDetect, varsThink,
     varsMedia, varsTokens, varsServer, varsPending, varsStores,
     varsExtract, varsCache>>

outsideTokens ==
    <<varsEvents, varsPM, varsGuard, varsStream, varsDetect, varsThink,
     varsMedia, varsSplit, varsServer, varsPending, varsStores,
     varsExtract, varsCache>>

outsideServer ==
    <<varsEvents, varsPM, varsGuard, varsStream, varsDetect, varsThink,
     varsMedia, varsSplit, varsTokens, varsPending, varsStores,
     varsExtract, varsCache>>

outsidePending ==
    <<varsEvents, varsPM, varsGuard, varsStream, varsDetect, varsThink,
     varsMedia, varsSplit, varsTokens, varsServer, varsStores,
     varsExtract, varsCache>>

outsideStores ==
    <<varsEvents, varsPM, varsGuard, varsStream, varsDetect, varsThink,
     varsMedia, varsSplit, varsTokens, varsServer, varsPending,
     varsExtract, varsCache>>

outsideExtract ==
    <<varsEvents, varsPM, varsGuard, varsStream, varsDetect, varsThink,
     varsMedia, varsSplit, varsTokens, varsServer, varsPending,
     varsStores, varsCache>>

outsideCache ==
    <<varsEvents, varsPM, varsGuard, varsStream, varsDetect, varsThink,
     varsMedia, varsSplit, varsTokens, varsServer, varsPending,
     varsStores, varsExtract>>

(***************************************************************************)
(* Events, server/event_handlers.py                                        *)
(***************************************************************************)
Tasks == 1..MaxTasks

bot_user_id == "BOT"

\* "D1" and "D2" are DMs (conversations_info: is_im), "C1" a public channel
Channels == {"D1", "D2", "C1"}
Users == {"U1", bot_user_id}
Timestamps == 1..MaxTs

IsIm(channel) == channel \in {"D1", "D2"}

EventTypes == {"message", "app_mention"}

\* the events the platform delivers; the bot's own posts come back as events too
\* (one timestamp of them is enough to exercise the author checks); of the
\* second DM one message of the user is enough to put a further key in the set
Events ==
    {ev \in [type : EventTypes, channel : Channels, ts : Timestamps, user : Users] :
        /\ ev.user = bot_user_id => ev.ts = 1
        /\ ev.channel = "D2" => ev.type = "message" /\ ev.user = "U1" /\ ev.ts = 1}

NoEvent == [type |-> "none", channel |-> "none", ts |-> 0, user |-> "none"]

Keys == Channels \X Timestamps \X Users

\* f"{channel_id}_{ts}_{user_id}": Slack ids hold no underscore, so the string
\* identifies the triple
message_key(ev) == <<ev.channel, ev.ts, ev.user>>

Terminal == {"idle", "skipped", "dup", "done"}

\* the lowest free task slot: a delivery starts a new asyncio task
FreeSlot(t) ==
    /\ hpc[t] \in Terminal
    /\ \A u \in Tasks : u < t => hpc[u] \notin Terminal

InitEvents ==
    /\ processed_messages = {}
    /\ agent \in {"ready", "none"}
    /\ hpc = [t \in Tasks |-> "idle"]
    /\ hev = [t \in Tasks |-> NoEvent]
    /\ delivered = 0
    /\ watched \in {message_key(ev) : ev \in Events}
    /\ admitted = 0
    /\ responses = 0
    /\ evictions = 0

\* _is_dm_channel: ok and is_im, False when conversations_info raises
is_dm_channel(channel, api_ok) == api_ok /\ IsIm(channel)

\* `message_key in self.processed_messages`
AlreadyProcessedNever(key) == FALSE

AlreadyProcessed(key) == key \in processed_messages

\* `self.processed_messages.add(message_key)`
AddKeyForgotten(s, key) == s

AddKey(s, key) == s \cup {key}

\* the subsets `list(self.processed_messages)[:1000]` can be: the iteration
\* order of a set of strings is the hash order, so any PruneBatch keys
PruneChoices(s) ==
    IF Cardinality(s) > PruneThreshold
    THEN {old \in SUBSET s : Cardinality(old) = PruneBatch}
    ELSE {{}}

\* history: one more admission of the watched key while it is resident, or
\* the first of a new residence
Admit(key) ==
    IF key # watched THEN admitted
    ELSE IF key \in processed_messages THEN admitted + 1 ELSE 1

\* handle_message_events, up to `await self._is_dm_channel(...)`
DeliverMessage(t, ev) ==
    /\ FreeSlot(t)
    /\ delivered < MaxDeliveries
    /\ ev.type = "message"
    /\ delivered' = delivered + 1
    /\ hpc' = [hpc EXCEPT ![t] = "dm_check"]
    /\ hev' = [hev EXCEPT ![t] = ev]
    /\ UNCHANGED <<processed_messages, agent, watched, admitted, responses, evictions>>
    /\ UNCHANGED outsideEvents

\* handle_app_mention_events, up to `await self._is_dm_channel(...)`:
\* the agent check and the bot check come before the first suspension
DeliverMention(t, ev) ==
    /\ FreeSlot(t)
    /\ delivered < MaxDeliveries
    /\ ev.type = "app_mention"
    /\ delivered' = delivered + 1
    /\ IF agent = "none" \/ ev.user = bot_user_id
       THEN /\ hpc' = [hpc EXCEPT ![t] = "skipped"]
            /\ hev' = [hev EXCEPT ![t] = NoEvent]
       ELSE /\ hpc' = [hpc EXCEPT ![t] = "dm_check"]
            /\ hev' = [hev EXCEPT ![t] = ev]
    /\ UNCHANGED <<processed_messages, agent, watched, admitted, responses, evictions>>
    /\ UNCHANGED outsideEvents

\* handle_message_events from the return of _is_dm_channel to the first
\* suspension of the call of process_message: DM check, bot check, dedup gate
MessageGate(t, api_ok) ==
    /\ hpc[t] = "dm_check"
    /\ hev[t].type = "message"
    /\ LET key == message_key(hev[t])
       IN IF ~is_dm_channel(hev[t].channel, api_ok) \/ hev[t].user = bot_user_id
          THEN /\ hpc' = [hpc EXCEPT ![t] = "skipped"]
               /\ hev' = [hev EXCEPT ![t] = NoEvent]
               /\ UNCHANGED <<processed_messages, admitted>>
          ELSE IF AlreadyProcessed(key)
          THEN /\ hpc' = [hpc EXCEPT ![t] = "dup"]
               /\ UNCHANGED <<processed_messages, admitted, hev>>
          ELSE /\ processed_messages' = AddKey(processed_messages, key)
               /\ admitted' = Admit(key)
               /\ hpc' = [hpc EXCEPT ![t] = "processing"]
               /\ UNCHANGED hev
    /\ UNCHANGED <<agent, delivered, watched, responses, evictions>>
    /\ UNCHANGED outsideEvents

\* handle_app_mention_events from the return of _is_dm_channel to the first
\* suspension after the gate: DM check, dedup gate, insertion, prune
MentionGate(t, api_ok) ==
    /\ hpc[t] = "dm_check"
    /\ hev[t].type = "app_mention"
    /\ LET key == message_key(hev[t])
       IN IF is_dm_channel(hev[t].channel, api_ok)
          THEN /\ hpc' = [hpc EXCEPT ![t] = "skipped"]
               /\ hev' = [hev EXCEPT ![t] = NoEvent]
               /\ UNCHANGED <<processed_messages, admitted, evictions>>
          ELSE IF AlreadyProcessed(key)
          THEN /\ hpc' = [hpc EXCEPT ![t] = "dup"]
               /\ UNCHANGED <<processed_messages, admitted, evictions, hev>>
          ELSE \E old \in PruneChoices(AddKey(processed_messages, key)) :
               /\ processed_messages' = AddKey(processed_messages, key) \ old
               /\ admitted' = Admit(key)
               /\ evictions' = IF watched \in old THEN evictions + 1 ELSE evictions
               /\ hpc' = [hpc EXCEPT ![t] = "processing"]
               /\ UNCHANGED hev
    /\ UNCHANGED <<agent, delivered, watched, responses>>
    /\ UNCHANGED outsideEvents

\* the admitted event runs process_message (or, for a mention starting with
\* +think, _handle_think_command); the run answers the user or ends silently
\* (access refused, bot-echo phrase, an exception logged by the handler)
ProcessEvent(t, answered) ==
    /\ hpc[t] = "processing"
    /\ hpc' = [hpc EXCEPT ![t] = "done"]
    /\ hev' = [hev EXCEPT ![t] = NoEvent]
    /\ responses' = IF answered /\ message_key(hev[t]) = watched
                     THEN responses + 1 ELSE responses
    /\ UNCHANGED <<processed_messages, agent, delivered, watched, admitted, evictions>>
    /\ UNCHANGED outsideEvents

\* config.py 115-118: set_global_agent(new_agent)
set_global_agent(new_agent) ==
    /\ agent' = new_agent
    /\ UNCHANGED <<processed_messages, hpc, hev, delivered, watched, admitted,
                   responses, evictions>>
    /\ UNCHANGED outsideEvents

\* slack_server.py 231-249: initialize_agent has created the agent and sets
\* it (when the creation raises, the except clause calls cleanup_agent)
initialize_agent ==
    /\ agent = "none"
    /\ set_global_agent("ready")

\* slack_server.py 252-264: cleanup_agent sets the global agent to None
cleanup_agent ==
    /\ agent = "ready"
    /\ set_global_agent("none")

NextEvents ==
    \/ initialize_agent
    \/ cleanup_agent
    \/ \E t \in Tasks, ev \in Events : DeliverMessage(t, ev)
    \/ \E t \in Tasks, ev \in Events : DeliverMention(t, ev)
    \/ \E t \in Tasks, api_ok \in BOOLEAN : MessageGate(t, api_ok)
    \/ \E t \in Tasks, api_ok \in BOOLEAN : MentionGate(t, api_ok)
    \/ \E t \in Tasks, answered \in BOOLEAN : ProcessEvent(t, answered)

(***************************************************************************)
(* MessageProcessor.process_message, server/message_processor.py           *)
(***************************************************************************)
Invocations == 1..MaxInvocations

\* the exceptions an awaited call can raise, by what their text holds
ErrKinds == {"rate_limit", "timeout", "connection", "other"}

\* utils.get_user_friendly_error_message: the category is picked by a
\* substring of the error text
get_user_friendly_error_message(e) ==
    CASE e = "rate_limit" -> "err_rate_limit"
      [] e = "timeout" -> "err_timeout"
      [] e = "connection" -> "err_connection"
      [] OTHER -> "err_generic"

\* utils.should_retry_error: the transient categories are retried
should_retry_error(e) == e \in {"rate_limit", "timeout", "connection"}

max_retries == 3

\* 2 ** n
RECURSIVE Pow2(_)
Pow2(n) == IF n = 0 THEN 1 ELSE 2 * Pow2(n - 1)

\* min(2 ** retry_count, 10)
backoff_time(retry_count) ==
    IF Pow2(retry_count) < 10 THEN Pow2(retry_count) ELSE 10

\* agent_semaphore = asyncio.Semaphore(max_concurrency)
agent_semaphore_one_more == max_concurrency + 1

agent_semaphore == max_concurrency

\* the awaits made while the slot is held (inside `async with agent_semaphore`)
SectionPcs == {"placeholder", "imagegen", "agent", "final_update", "retry_sleep",
               "report_update"}

InitPM ==
    /\ ppc = [i \in Invocations |-> "idle"]
    /\ sem_value = agent_semaphore
    /\ sem_waiters = <<>>
    /\ sem_woken = {}
    /\ _retry_count = 0
    /\ user_error_msg = [i \in Invocations |-> "none"]
    /\ pwatch \in Invocations
    /\ hcause = "none"
    /\ hmsg = "none"
    /\ hsleeps = <<>>
    /\ hruns = 0
    /\ hwaited = FALSE

\* asyncio.Semaphore.locked
locked == sem_value = 0 \/ sem_waiters # <<>>

\* asyncio.Semaphore._wake_up_next on the given counter and queue: the first
\* waiter whose future is not done takes the slot
WakeUpNext(value, waiters, woken) ==
    LET pending == {n \in 1..Len(waiters) : waiters[n] \notin woken}
    IN IF pending = {}
       THEN [value |-> value, woken |-> woken]
       ELSE LET first == CHOOSE n \in pending : \A o \in pending : n <= o
            IN [value |-> value - 1, woken |-> woken \cup {waiters[first]}]

\* `async with agent_semaphore` releases the slot on every way out of the
\* block: a return, the end of the block, an exception passing through
ExitReleasesUnlessException(how) == how # "exception"

ExitReleases(how) == TRUE

\* leaving the `async with` block: asyncio.Semaphore.release
LeaveSection(how) ==
    IF ExitReleases(how)
    THEN LET r == WakeUpNext(sem_value + 1, sem_waiters, sem_woken)
         IN /\ sem_value' = r.value
            /\ sem_woken' = r.woken
            /\ UNCHANGED sem_waiters
    ELSE UNCHANGED <<sem_value, sem_waiters, sem_woken>>

\* history of the watched invocation: the text the user sees changes to m
Shows(i, m) == hmsg' = IF i = pwatch THEN m ELSE hmsg

\* history of the watched invocation: one more run of the gated pipeline
Runs(i) == hruns' = IF i = pwatch THEN hruns + 1 ELSE hruns

semVars == <<sem_value, sem_waiters, sem_woken>>

histVars == <<pwatch, hcause, hmsg, hsleeps, hruns, hwaited>>

\* a handler calls process_message; invocations are numbered as they start
Invoke(i) ==
    /\ ppc[i] = "idle"
    /\ \A j \in Invocations : j < i => ppc[j] # "idle"
    /\ ppc' = [ppc EXCEPT ![i] = "pre"]
    /\ UNCHANGED <<semVars, _retry_count, user_error_msg, histVars>>
    /\ UNCHANGED outsidePM

\* lines 87-108: the channel is refused by is_channel_allowed, or the text
\* holds a bot-echo phrase: return without a word
PreReturn(i) ==
    /\ ppc[i] = "pre"
    /\ ppc' = [ppc EXCEPT ![i] = "returned"]
    /\ UNCHANGED <<semVars, _retry_count, user_error_msg, histVars>>
    /\ UNCHANGED outsidePM

\* lines 87-151: an await before the semaphore raises (create_agent, the
\* history fetch): the exception leaves process_message
PreRaise(i) ==
    /\ ppc[i] = "pre"
    /\ ppc' = [ppc EXCEPT ![i] = "raised"]
    /\ UNCHANGED <<semVars, _retry_count, user_error_msg, histVars>>
    /\ UNCHANGED outsidePM

\* lines 153-159: asyncio.Semaphore.acquire after the last await of the
\* preparation; with a free slot the code runs on to `await say("Pensando...")`
Acquire(i) ==
    /\ ppc[i] = "pre"
    /\ IF ~locked
       THEN /\ sem_value' = sem_value - 1
            /\ ppc' = [ppc EXCEPT ![i] = "placeholder"]
            /\ Runs(i)
            /\ UNCHANGED <<sem_waiters, hwaited>>
       ELSE /\ sem_waiters' = Append(sem_waiters, i)
            /\ ppc' = [ppc EXCEPT ![i] = "sem_wait"]
            /\ hwaited' = (hwaited \/ i = pwatch)
            /\ UNCHANGED <<sem_value, hruns>>
    /\ UNCHANGED <<sem_woken, _retry_count, user_error_msg, pwatch, hcause, hmsg,
                   hsleeps>>
    /\ UNCHANGED outsidePM

\* the woken waiter resumes in acquire: it leaves the queue, passes a spare
\* slot on, and runs on to `await say("Pensando...")`
Resume(i) ==
    /\ ppc[i] = "sem_wait"
    /\ i \in sem_woken
    /\ LET waiters == SelectSeq(sem_waiters, LAMBDA w : w # i)
           woken == sem_woken \ {i}
           r == IF sem_value > 0
                THEN WakeUpNext(sem_value, waiters, woken)
                ELSE [value |-> sem_value, woken |-> woken]
       IN /\ sem_waiters' = waiters
          /\ sem_value' = r.value
          /\ sem_woken' = r.woken
    /\ ppc' = [ppc EXCEPT ![i] = "placeholder"]
    /\ Runs(i)
    /\ UNCHANGED <<_retry_count, user_error_msg, pwatch, hcause, hmsg, hsleeps,
                   hwaited>>
    /\ UNCHANGED outsidePM

\* lines 155-186: the placeholder is posted; the code goes on to image
\* generation (the ImageGen tag) or to the agent
PlaceholderPosted(i, image_gen) ==
    /\ ppc[i] = "placeholder"
    /\ ppc' = [ppc EXCEPT ![i] = IF image_gen THEN "imagegen" ELSE "agent"]
    /\ Shows(i, "thinking")
    /\ UNCHANGED <<semVars, _retry_count, user_error_msg, pwatch, hcause, hsleeps,
                   hruns, hwaited>>
    /\ UNCHANGED outsidePM

\* line 155 raises (outside the try): the exception leaves process_message
PlaceholderRaises(i) ==
    /\ ppc[i] = "placeholder"
    /\ ppc' = [ppc EXCEPT ![i] = "raised"]
    /\ LeaveSection("exception")
    /\ UNCHANGED <<_retry_count, user_error_msg, histVars>>
    /\ UNCHANGED outsidePM

\* lines 235-250 and 264-269: the except branch up to its next await, for the
\* caught error e: either the backoff sleep or the edit of the placeholder
\* to the user-facing error text
ExceptBranch(i, e) ==
    /\ hcause' = IF i = pwatch THEN e ELSE hcause
    /\ user_error_msg' = [user_error_msg EXCEPT ![i] = get_user_friendly_error_message(e)]
    /\ IF should_retry_error(e) /\ _retry_count < max_retries
       THEN /\ _retry_count' = _retry_count + 1
            /\ hsleeps' = IF i = pwatch
                          THEN Append(hsleeps, backoff_time(_retry_count))
                          ELSE hsleeps
            /\ ppc' = [ppc EXCEPT ![i] = "retry_sleep"]
       ELSE /\ ppc' = [ppc EXCEPT ![i] = "report_update"]
            /\ UNCHANGED <<_retry_count, hsleeps>>
    /\ UNCHANGED <<semVars, pwatch, hmsg, hruns, hwaited>>
    /\ UNCHANGED outsidePM

\* lines 169-171: _handle_image_generation returns (it reports its own
\* errors); process_message returns from inside the block
ImageGenReturns(i) ==
    /\ ppc[i] = "imagegen"
    /\ ppc' = [ppc EXCEPT ![i] = "done"]
    /\ Shows(i, "image")
    /\ LeaveSection("return")
    /\ UNCHANGED <<_retry_count, user_error_msg, pwatch, hcause, hsleeps, hruns,
                   hwaited>>
    /\ UNCHANGED outsidePM

\* lines 296-302: the say of the image error raises in turn
ImageGenRaises(i, e) ==
    /\ ppc[i] = "imagegen"
    /\ ExceptBranch(i, e)

\* lines 173-222: image download, stream callback, agent run, tags and token
\* accounting succeed; the final text goes out as an edit of the placeholder
AgentReturns(i) ==
    /\ ppc[i] = "agent"
    /\ ppc' = [ppc EXCEPT ![i] = "final_update"]
    /\ UNCHANGED <<semVars, _retry_count, user_error_msg, histVars>>
    /\ UNCHANGED outsidePM

\* lines 173-207: one of the awaits of the try block raises e
AgentRaises(i, e) ==
    /\ ppc[i] = "agent"
    /\ ExceptBranch(i, e)

\* lines 223-224 without the say of the except clause: a failed edit leaves
\* the placeholder as it was
final_delivery_edit_only(by_edit) ==
    IF by_edit THEN "response_edit" ELSE "thinking"

\* lines 215-224: what the user sees of formatted_response: the placeholder
\* edited to it, or (the edit raised) a new message of the thread holding it
final_delivery(by_edit) ==
    IF by_edit THEN "response_edit" ELSE "response_post"

\* lines 215-233: chat_update succeeded (the text is delivered as an edit), or
\* it raised and say posted the same text; the block ends
FinalDelivered(i, by_edit) ==
    /\ ppc[i] = "final_update"
    /\ ppc' = [ppc EXCEPT ![i] = "done"]
    /\ Shows(i, final_delivery(by_edit))
    /\ LeaveSection("end")
    /\ UNCHANGED <<_retry_count, user_error_msg, pwatch, hcause, hsleeps, hruns,
                   hwaited>>
    /\ UNCHANGED outsidePM

\* lines 223-224: chat_update raised and the say of the fallback raised e,
\* inside the except clause of the inner try: the outer except branch
\* catches it
FinalPostRaises(i, e) ==
    /\ ppc[i] = "final_update"
    /\ ExceptBranch(i, e)

\* lines 260-262 without the finally clause: the attribute stays
retry_count_kept(count) == count

\* lines 260-262: `finally: if hasattr(self, '_retry_count'): delattr(...)`;
\* 0 stands for the attribute being absent
retry_count_deleted(count) == 0

\* lines 250-269: the sleep is over; self.process_and_respond_streaming is no
\* attribute of MessageProcessor, so the call raises AttributeError, caught
\* at line 257. Line 258 reads self._retry_count: when another invocation has
\* deleted it meanwhile, that read raises and the exception leaves
\* process_message; otherwise the text becomes that of the AttributeError,
\* the finally clause deletes the attribute and the error text is reported
RetryWakes(i) ==
    /\ ppc[i] = "retry_sleep"
    /\ IF _retry_count = 0
       THEN /\ ppc' = [ppc EXCEPT ![i] = "raised"]
            /\ user_error_msg' = [user_error_msg EXCEPT ![i] = "none"]
            /\ LeaveSection("exception")
            /\ UNCHANGED _retry_count
       ELSE /\ ppc' = [ppc EXCEPT ![i] = "report_update"]
            /\ user_error_msg' = [user_error_msg EXCEPT ![i] =
                                    get_user_friendly_error_message("attribute")]
            /\ _retry_count' = retry_count_deleted(_retry_count)
            /\ UNCHANGED semVars
    /\ UNCHANGED histVars
    /\ UNCHANGED outsidePM

\* lines 264-274: the placeholder now shows user_error_msg, or that edit
\* raised and say posted the fixed communication-failure text
ErrorReported(i, by_edit) ==
    /\ ppc[i] = "report_update"
    /\ ppc' = [ppc EXCEPT ![i] = "done"]
    /\ Shows(i, IF by_edit THEN user_error_msg[i] ELSE "err_comm")
    /\ user_error_msg' = [user_error_msg EXCEPT ![i] = "none"]
    /\ LeaveSection("end")
    /\ UNCHANGED <<_retry_count, pwatch, hcause, hsleeps, hruns, hwaited>>
    /\ UNCHANGED outsidePM

\* line 274 raises: the exception leaves process_message
ReportPostRaises(i) ==
    /\ ppc[i] = "report_update"
    /\ ppc' = [ppc EXCEPT ![i] = "raised"]
    /\ user_error_msg' = [user_error_msg EXCEPT ![i] = "none"]
    /\ LeaveSection("exception")
    /\ UNCHANGED <<_retry_count, histVars>>
    /\ UNCHANGED outsidePM

\* the steps of invocation i once it has started
StepPM(i) ==
    \/ PreReturn(i)
    \/ PreRaise(i)
    \/ Acquire(i)
    \/ Resume(i)
    \/ \E image_gen \in BOOLEAN : PlaceholderPosted(i, image_gen)
    \/ PlaceholderRaises(i)
    \/ ImageGenReturns(i)
    \/ \E e \in ErrKinds : ImageGenRaises(i, e)
    \/ AgentReturns(i)
    \/ \E e \in ErrKinds : AgentRaises(i, e)
    \/ \E by_edit \in BOOLEAN : FinalDelivered(i, by_edit)
    \/ \E e \in ErrKinds : FinalPostRaises(i, e)
    \/ RetryWakes(i)
    \/ \E by_edit \in BOOLEAN : ErrorReported(i, by_edit)
    \/ ReportPostRaises(i)

NextPM ==
    \/ \E i \in Invocations : Invoke(i)
    \/ \E i \in Invocations : StepPM(i)

(***************************************************************************)
(* professional_content_guardrail, agent/guardrails.py                     *)
(***************************************************************************)
\* confidence scores in tenths: 0.0, 0.1, ..., 1.0
ConfidenceScores == 0..10

\* the 0.7 of `analysis.confidence_score > 0.7`, in tenths
TripwireThreshold == 7

Categories == {"sexual", "violence", "harassment", "personal", "off_topic", "safe"}

\* ProfessionalContentOutput, as the classifier agent may fill it
Verdicts == [is_inappropriate : BOOLEAN, category : Categories,
             confidence_score : ConfidenceScores]

\* input_text: len(input_text), and whether a blocklisted term occurs in it
InputLengths == {0, 2, 19, 20, 40}

GuardInputs == [len : InputLengths, blocklisted : BOOLEAN]

NoVerdict == [is_inappropriate |-> FALSE, category |-> "none", confidence_score |-> 0]

NoOutput == [output_info |-> NoVerdict, tripwire_triggered |-> FALSE]

NoInput == [len |-> 0, blocklisted |-> FALSE]

InitGuard ==
    /\ g_pc = "idle"
    /\ g_input = NoInput
    /\ g_output = NoOutput

\* analysis.is_inappropriate and analysis.confidence_score > 0.7
tripwire_triggered_at_threshold(analysis) ==
    analysis.is_inappropriate /\ analysis.confidence_score >= TripwireThreshold

tripwire_triggered(analysis) ==
    analysis.is_inappropriate /\ analysis.confidence_score > TripwireThreshold

\* lines 92-110: the input is turned into input_text and handed to the
\* classifier agent: `await Runner.run(guardrail_agent, ...)`
GuardrailCalled(input) ==
    /\ g_pc \in {"idle", "returned", "raised"}
    /\ g_pc' = "classifying"
    /\ g_input' = input
    /\ g_output' = NoOutput
    /\ UNCHANGED <<outsideGuard>>

\* lines 112-120: the classifier returned `analysis`; the guardrail returns
\* it as output_info together with the tripwire decision
ClassifierReturns(analysis) ==
    /\ g_pc = "classifying"
    /\ g_pc' = "returned"
    /\ g_output' = [output_info |-> analysis,
                    tripwire_triggered |-> tripwire_triggered(analysis)]
    /\ UNCHANGED <<g_input, outsideGuard>>

\* line 106 raises: nothing catches it, the guardrail raises
ClassifierRaises ==
    /\ g_pc = "classifying"
    /\ g_pc' = "raised"
    /\ UNCHANGED <<g_input, g_output, outsideGuard>>

NextGuard ==
    \/ \E input \in GuardInputs : GuardrailCalled(input)
    \/ \E analysis \in Verdicts : ClassifierReturns(analysis)
    \/ ClassifierRaises

(***************************************************************************)
(* process_message, agent/processor.py                                     *)
(***************************************************************************)
\* the text deltas of the stream, as sequences of characters
Deltas == {<<"a">>, <<"b", "c">>}

\* tool calls of one run are numbered by their tool_call_item
CallIds == 1..MaxEvents

\* the events of result.stream_events():
\*   raw/text      raw_response_event carrying a ResponseTextDeltaEvent
\*   raw/delta     raw_response_event whose data has another type with a delta
\*   raw/plain     raw_response_event whose data has no delta attribute
\*   item/tool_call_item, item/file_search_call, item/tool_call_output_item,
\*   item/message  run_item_stream_event by the type of its item
\*                 (call 0: the output of no call of this run)
\*   other         any other event type
StreamEvents ==
    [type : {"raw"}, kind : {"text", "delta"}, delta : Deltas \cup {<<>>}, call : {0}]
    \cup [type : {"raw"}, kind : {"plain"}, delta : {<<>>}, call : {0}]
    \cup [type : {"item"}, kind : {"tool_call_item", "file_search_call",
                                  "tool_call_output_item"},
          delta : {<<>>}, call : CallIds]
    \cup [type : {"item"}, kind : {"tool_call_output_item"}, delta : {<<>>}, call : {0}]
    \cup [type : {"item"}, kind : {"message"}, delta : {<<>>}, call : {0}]
    \cup [type : {"other"}, kind : {"agent_updated"}, delta : {<<>>}, call : {0}]

\* the events that start a tool call, and the calls started so far
IsStart(ev) == ev.type = "item" /\ ev.kind \in {"tool_call_item", "file_search_call"}

IsOutput(ev) == ev.type = "item" /\ ev.kind = "tool_call_output_item"

Started(evs) == {evs[n].call : n \in {m \in 1..Len(evs) : IsStart(evs[m])}}

Supplied(evs) == {evs[n].call : n \in {m \in 1..Len(evs) : IsOutput(evs[m])}}

\* what the agent runtime can emit next: a tool call takes the next number,
\* an output belongs to a call that started and has no output yet; the
\* output of no call is let in while no call has started
CanEmit(ev) ==
    /\ IsStart(ev) => ev.call = Cardinality(Started(consumed)) + 1
    /\ IsOutput(ev) => IF ev.call = 0 THEN Started(consumed) = {}
                       ELSE ev.call \in Started(consumed) \ Supplied(consumed)

ZeroUsage == [input |-> 0, output |-> 0, total |-> 0]

NoResult == [text |-> [kind |-> "none", body |-> <<>>], tools |-> <<>>,
             token_usage |-> ZeroUsage]

\* lines 127-131: the dict returned when the tripwire is caught
GuardrailResult ==
    [text |-> [kind |-> "apology", body |-> <<>>], tools |-> <<>>,
     token_usage |-> ZeroUsage]

\* lines 193-210: the dict returned for an exception of the native path; the
\* text holds str(e) unless it names a rate limit, a timeout or a connection
ErrorResult(e) ==
    [text |-> [kind |-> CASE e = "rate_limit" -> "err_rate_limit"
                          [] e = "timeout" -> "err_timeout"
                          [] e = "connection" -> "err_connection"
                          [] OTHER -> "err_raw",
               body |-> <<>>],
     tools |-> <<>>, token_usage |-> ZeroUsage]

\* the native path without its except clause: the exception leaves
\* process_message and nothing is returned
NativeExceptAbsent(e) == [pc |-> "raised", result |-> NoResult]

\* lines 193-210: `except Exception as e` around the native path: the
\* exception ends there and process_message returns the error dict
NativeExcept(e) == [pc |-> "returned", result |-> ErrorResult(e)]

\* line 181: full_response or str(result.final_output) if result.final_output
\* else "No response generated."  (the conditional binds last)
final_text(full, has_final_output) ==
    IF has_final_output
    THEN IF full # <<>> THEN [kind |-> "streamed", body |-> full]
         ELSE [kind |-> "final_output", body |-> <<>>]
    ELSE [kind |-> "no_response", body |-> <<>>]

\* full_response += delta_text
AppendDeltaOverwrites(full, delta) == delta

AppendDelta(full, delta) == full \o delta

\* lines 137 and 141: the raw events whose delta is appended and reported
HasDelta(ev) == ev.type = "raw" /\ ev.kind \in {"text", "delta"} /\ ev.delta # <<>>

\* lines 152-157 and 162-167: the entry appended for a started call
tool_info(ev) ==
    [tool_name |-> IF ev.kind = "file_search_call" THEN "file_search" ELSE "tool",
     type |-> IF ev.kind = "file_search_call" THEN "file_search_call"
              ELSE "tool_call_started",
     output |-> 0]

\* lines 171-175 with the update applied to every entry instead of the last
UpdateEvery(calls, ev) ==
    [n \in 1..Len(calls) |->
        [calls[n] EXCEPT !.output = ev.call, !.type = "tool_call_completed"]]

\* lines 171-175: tool_calls[-1].update({"output": ..., "type": ...}); the
\* output of call c is written as c
UpdateLast(calls, ev) ==
    IF calls = <<>> THEN calls
    ELSE [calls EXCEPT ![Len(calls)] =
            [@ EXCEPT !.output = ev.call, !.type = "tool_call_completed"]]

\* one call of stream_callback(delta_text, full_response, tool_calls)
CallbackCall(delta, full, calls) ==
    [delta |-> delta, full_text |-> full, tool_calls |-> calls]

\* lines 68, 75 and 194: the logger.error of a tier that raised
failure_log(tier) ==
    CASE tier = "tier1" -> "Enhanced multi-turn MCP failed"
      [] tier = "tier2" -> "Regular MCP processing also failed"
      [] OTHER -> "Native Agents SDK processing failed"

\* lines 67-79: the tier awaited after `tier` raised
NextTierSkipsStreaming(tier) == "native"

NextTier(tier) == IF tier = "tier1" THEN "tier2" ELSE "native"

\* history: the tier `tier` is awaited
Attempt(att, tier) == Append(att, [tier |-> tier, outcome |-> "running", log |-> "none"])

\* history: the tier awaited returned, or raised and its failure was logged
Close(att, outcome) ==
    [att EXCEPT ![Len(att)] =
        [@ EXCEPT !.outcome = outcome,
                  !.log = IF outcome = "raised" THEN failure_log(att[Len(att)].tier)
                         ELSE "none"]]

InitStream ==
    /\ s_pc = "idle"
    /\ mcp_key = "none"
    /\ full_response = <<>>
    /\ tool_calls = <<>>
    /\ s_result = NoResult
    /\ cb_log = <<>>
    /\ consumed = <<>>
    /\ trip_at = "none"
    /\ attempts = <<>>

\* lines 52-66: process_message is called; with an integration detected the
\* enhanced multi-turn tier is awaited, otherwise the native path starts
ProcessMessageCalled(key) ==
    /\ s_pc \in {"idle", "returned"}
    /\ mcp_key' = key
    /\ s_pc' = IF key = "none" THEN "native" ELSE "tier1"
    /\ full_response' = <<>>
    /\ tool_calls' = <<>>
    /\ s_result' = NoResult
    /\ cb_log' = <<>>
    /\ consumed' = <<>>
    /\ trip_at' = "none"
    /\ attempts' = Attempt(<<>>, IF key = "none" THEN "native" ELSE "tier1")
    /\ UNCHANGED <<outsideStream>>

\* what process_message_with_enhanced_multiturn_mcp and
\* process_message_with_zapier_mcp_streaming can return: a dict with the
\* tier's text, with or without a completed tool call, with a token usage
\* of zeros or of the counts the tier reports
TierResults(tier) ==
    {[text |-> [kind |-> tier, body |-> <<>>], tools |-> tools, token_usage |-> usage] :
        tools \in {<<>>, <<[tool_name |-> "tool", type |-> "tool_call_completed",
                            output |-> 1]>>},
        usage \in {ZeroUsage, [input |-> 1, output |-> 1, total |-> 2]}}

\* lines 63-66 and 70-73: a tier returns, and process_message returns what
\* the tier returned, its tools and its token usage as they are
TierReturns(result) ==
    /\ s_pc \in {"tier1", "tier2"}
    /\ result \in TierResults(s_pc)
    /\ s_pc' = "returned"
    /\ s_result' = result
    /\ attempts' = Close(attempts, "returned")
    /\ UNCHANGED <<mcp_key, full_response, tool_calls, cb_log, consumed, trip_at,
                   outsideStream>>

\* lines 67-77: a tier raises; the next tier is tried, the native path last
TierRaises ==
    /\ s_pc \in {"tier1", "tier2"}
    /\ s_pc' = NextTier(s_pc)
    /\ attempts' = Attempt(Close(attempts, "raised"), NextTier(s_pc))
    /\ UNCHANGED <<mcp_key, full_response, tool_calls, s_result, cb_log, consumed,
                   trip_at, outsideStream>>

\* lines 80-123: the input is prepared and Runner.run_streamed returns
RunStreamedReturns ==
    /\ s_pc = "native"
    /\ s_pc' = "streaming"
    /\ UNCHANGED <<mcp_key, full_response, tool_calls, s_result, cb_log, consumed,
                   trip_at, attempts, outsideStream>>

\* lines 122-131: Runner.run_streamed raises InputGuardrailTripwireTriggered
RunStreamedTrips ==
    /\ s_pc = "native"
    /\ s_pc' = "returned"
    /\ trip_at' = "run_streamed"
    /\ s_result' = GuardrailResult
    /\ attempts' = Close(attempts, "returned")
    /\ UNCHANGED <<mcp_key, full_response, tool_calls, cb_log, consumed,
                   outsideStream>>

\* lines 80-123 and 193-210: anything else raised before the stream is read
RunStreamedRaises(e) ==
    /\ s_pc = "native"
    /\ s_pc' = NativeExcept(e).pc
    /\ s_result' = NativeExcept(e).result
    /\ attempts' = Close(attempts, "raised")
    /\ UNCHANGED <<mcp_key, full_response, tool_calls, cb_log, consumed, trip_at,
                   outsideStream>>

\* lines 134-175: the loop body for one event, up to the stream_callback it
\* awaits (if any): full_response and tool_calls are written and the callback
\* is called
StreamEvent(ev) ==
    /\ s_pc = "streaming"
    /\ Len(consumed) < MaxEvents
    /\ CanEmit(ev)
    /\ consumed' = Append(consumed, ev)
    /\ LET full == IF HasDelta(ev) THEN AppendDelta(full_response, ev.delta)
                   ELSE full_response
           calls == IF IsStart(ev) THEN Append(tool_calls, tool_info(ev))
                    ELSE IF IsOutput(ev) THEN UpdateLast(tool_calls, ev)
                    ELSE tool_calls
           called == HasDelta(ev) \/ IsStart(ev)
       IN /\ full_response' = full
          /\ tool_calls' = calls
          /\ cb_log' = IF called
                       THEN Append(cb_log, CallbackCall(
                                IF HasDelta(ev) THEN ev.delta ELSE <<>>, full, calls))
                       ELSE cb_log
          /\ s_pc' = IF called THEN "callback" ELSE "streaming"
    /\ UNCHANGED <<mcp_key, s_result, trip_at, attempts, outsideStream>>

\* lines 140, 145, 158, 168: the awaited stream_callback returns and the loop
\* goes on to the next event
CallbackReturns ==
    /\ s_pc = "callback"
    /\ s_pc' = "streaming"
    /\ UNCHANGED <<mcp_key, full_response, tool_calls, s_result, cb_log, consumed,
                   trip_at, attempts, outsideStream>>

\* lines 140, 145, 158, 168 and 193-210: the awaited stream_callback raises e;
\* the except clause of the native path turns it into a dict by its text
CallbackRaises(e) ==
    /\ s_pc = "callback"
    /\ s_pc' = NativeExcept(e).pc
    /\ s_result' = NativeExcept(e).result
    /\ attempts' = Close(attempts, "raised")
    /\ UNCHANGED <<mcp_key, full_response, tool_calls, cb_log, consumed, trip_at,
                   outsideStream>>

\* lines 134 and 193-210: result.stream_events() raises e, the tripwire
\* included: the except clause of the native path turns it into a dict
StreamRaises(e) ==
    /\ s_pc = "streaming"
    /\ s_pc' = NativeExcept(e).pc
    /\ trip_at' = IF e = "tripwire" THEN "stream_events" ELSE trip_at
    /\ s_result' = NativeExcept(e).result
    /\ attempts' = Close(attempts, "raised")
    /\ UNCHANGED <<mcp_key, full_response, tool_calls, cb_log, consumed,
                   outsideStream>>

\* lines 177-191: the stream ended
StreamEnds(has_final_output) ==
    /\ s_pc = "streaming"
    /\ s_pc' = "returned"
    /\ s_result' = [text |-> final_text(full_response, has_final_output),
                    tools |-> tool_calls, token_usage |-> ZeroUsage]
    /\ attempts' = Close(attempts, "returned")
    /\ UNCHANGED <<mcp_key, full_response, tool_calls, cb_log, consumed, trip_at,
                   outsideStream>>

NextStream ==
    \/ \E key \in {"none", "calendar"} : ProcessMessageCalled(key)
    \/ \E tier \in {"tier1", "tier2"} : \E result \in TierResults(tier) : TierReturns(result)
    \/ TierRaises
    \/ RunStreamedReturns
    \/ RunStreamedTrips
    \/ \E e \in ErrKinds : RunStreamedRaises(e)
    \/ \E ev \in StreamEvents : StreamEvent(ev)
    \/ CallbackReturns
    \/ \E e \in ErrKinds : CallbackRaises(e)
    \/ \E e \in ErrKinds \cup {"tripwire"} : StreamRaises(e)
    \/ \E has_final_output \in BOOLEAN : StreamEnds(has_final_output)

(***************************************************************************)
(* get_mcp_by_keywords, tools/mcp/zapier_mcps.py                           *)
(***************************************************************************)
\* texts are sequences of characters
\* the characters str.lower changes, among those a string of this module can
\* hold (the parser takes the characters below U+0100 and, up to U+FFFF,
\* those whose code point ends in a byte of 0x80 or more), each with the
\* one character it becomes
UpperCase ==
    <<"A", "B", "C", "D", "E", "F", "G", "H", "I", "J", "K", "L", "M", "N",
      "O", "P", "Q", "R", "S", "T", "U", "V", "W", "X", "Y", "Z", "À", "Á",
      "Â", "Ã", "Ä", "Å", "Æ", "Ç", "È", "É", "Ê", "Ë", "Ì", "Í", "Î", "Ï",
      "Ð", "Ñ", "Ò", "Ó", "Ô", "Õ", "Ö", "Ø", "Ù", "Ú", "Û", "Ü", "Ý", "Þ",
      "Ƃ", "Ƅ", "Ƈ", "Ƌ", "Ǝ", "Ƒ", "Ƙ", "Ơ", "Ƣ", "Ƥ", "Ʀ", "Ƨ", "Ʃ", "Ƭ",
      "Ʈ", "Ư", "Ʊ", "Ʋ", "Ƴ", "Ƶ", "Ʒ", "Ƹ", "Ƽ", "Ǆ", "ǅ", "Ǉ", "ǈ", "Ǌ",
      "ǋ", "Ǎ", "Ǐ", "Ǒ", "Ǔ", "Ǖ", "Ǘ", "Ǚ", "Ǜ", "Ǟ", "Ǡ", "Ǣ", "Ǥ", "Ǧ",
      "Ǩ", "Ǫ", "Ǭ", "Ǯ", "Ǳ", "ǲ", "Ǵ", "Ƕ", "Ƿ", "Ǹ", "Ǻ", "Ǽ", "Ǿ", "Ά",
      "Έ", "Ή", "Ί", "Ό", "Ύ", "Ώ", "Α", "Β", "Γ", "Δ", "Ε", "Ζ", "Η", "Θ",
      "Ι", "Κ", "Λ", "Μ", "Ν", "Ξ", "Ο", "Π", "Ρ", "Σ", "Τ", "Υ", "Φ", "Χ",
      "Ψ", "Ω", "Ϊ", "Ϋ", "Ϗ", "Ϙ", "Ϛ", "Ϝ", "Ϟ", "Ϡ", "Ϣ", "Ϥ", "Ϧ", "Ϩ",
      "Ϫ", "Ϭ", "Ϯ", "ϴ", "Ϸ", "Ϲ", "Ϻ", "Ҁ", "Ҋ", "Ҍ", "Ҏ", "Ґ", "Ғ", "Ҕ",
      "Җ", "Ҙ", "Қ", "Ҝ", "Ҟ", "Ҡ", "Ң", "Ҥ", "Ҧ", "Ҩ", "Ҫ", "Ҭ", "Ү", "Ұ",
      "Ҳ", "Ҵ", "Ҷ", "Ҹ", "Һ", "Ҽ", "Ҿ", "Ӏ", "Ӂ", "Ӄ", "Ӆ", "Ӈ", "Ӊ", "Ӌ",
      "Ӎ", "Ӑ", "Ӓ", "Ӕ", "Ӗ", "Ә", "Ӛ", "Ӝ", "Ӟ", "Ӡ", "Ӣ", "Ӥ", "Ӧ", "Ө",
      "Ӫ", "Ӭ", "Ӯ", "Ӱ", "Ӳ", "Ӵ", "Ӷ", "Ӹ", "Ӻ", "Ӽ", "Ӿ", "Ꮀ", "Ꮁ", "Ꮂ",
      "Ꮃ", "Ꮄ", "Ꮅ", "Ꮆ", "Ꮇ", "Ꮈ", "Ꮉ", "Ꮊ", "Ꮋ", "Ꮌ", "Ꮍ", "Ꮎ", "Ꮏ", "Ꮐ",
      "Ꮑ", "Ꮒ", "Ꮓ", "Ꮔ", "Ꮕ", "Ꮖ", "Ꮗ", "Ꮘ", "Ꮙ", "Ꮚ", "Ꮛ", "Ꮜ", "Ꮝ", "Ꮞ",
      "Ꮟ", "Ꮠ", "Ꮡ", "Ꮢ", "Ꮣ", "Ꮤ", "Ꮥ", "Ꮦ", "Ꮧ", "Ꮨ", "Ꮩ", "Ꮪ", "Ꮫ", "Ꮬ",
      "Ꮭ", "Ꮮ", "Ꮯ", "Ꮰ", "Ꮱ", "Ꮲ", "Ꮳ", "Ꮴ", "Ꮵ", "Ꮶ", "Ꮷ", "Ꮸ", "Ꮹ", "Ꮺ",
      "Ꮻ", "Ꮼ", "Ꮽ", "Ꮾ", "Ꮿ", "Ᏸ", "Ᏹ", "Ᏺ", "Ᏻ", "Ᏼ", "Ᏽ", "Ა", "Ბ", "Გ",
      "Დ", "Ე", "Ვ", "Ზ", "Თ", "Ი", "Კ", "Ლ", "Მ", "Ნ", "Ო", "Პ", "Ჟ", "Რ",
      "Ს", "Ტ", "Უ", "Ფ", "Ქ", "Ღ", "Ყ", "Შ", "Ჩ", "Ც", "Ძ", "Წ", "Ჭ", "Ხ",
      "Ჯ", "Ჰ", "Ჱ", "Ჲ", "Ჳ", "Ჴ", "Ჵ", "Ჶ", "Ჷ", "Ჸ", "Ჹ", "Ჺ", "Ჽ", "Ჾ",
      "Ჿ", "Ẁ", "Ẃ", "Ẅ", "Ẇ", "Ẉ", "Ẋ", "Ẍ", "Ẏ", "Ẑ", "Ẓ", "Ẕ", "ẞ", "Ạ",
      "Ả", "Ấ", "Ầ", "Ẩ", "Ẫ", "Ậ", "Ắ", "Ằ", "Ẳ", "Ẵ", "Ặ", "Ẹ", "Ẻ", "Ẽ",
      "Ế", "Ề", "Ể", "Ễ", "Ệ", "Ỉ", "Ị", "Ọ", "Ỏ", "Ố", "Ồ", "Ổ", "Ỗ", "Ộ",
      "Ớ", "Ờ", "Ở", "Ỡ", "Ợ", "Ụ", "Ủ", "Ứ", "Ừ", "Ử", "Ữ", "Ự", "Ỳ", "Ỵ",
      "Ỷ", "Ỹ", "Ỻ", "Ỽ", "Ỿ", "ᾈ", "ᾉ", "ᾊ", "ᾋ", "ᾌ", "ᾍ", "ᾎ", "ᾏ", "ᾘ",
      "ᾙ", "ᾚ", "ᾛ", "ᾜ", "ᾝ", "ᾞ", "ᾟ", "ᾨ", "ᾩ", "ᾪ", "ᾫ", "ᾬ", "ᾭ", "ᾮ",
      "ᾯ", "Ᾰ", "Ᾱ", "ᾼ", "ῌ", "Ῐ", "Ῑ", "Ῠ", "Ῡ", "Ῥ", "ῼ", "Ↄ", "Ⓐ", "Ⓑ",
      "Ⓒ", "Ⓓ", "Ⓔ", "Ⓕ", "Ⓖ", "Ⓗ", "Ⓘ", "Ⓙ", "Ⓚ", "Ⓛ", "Ⓜ", "Ⓝ", "Ⓞ", "Ⓟ",
      "Ⓠ", "Ⓡ", "Ⓢ", "Ⓣ", "Ⓤ", "Ⓥ", "Ⓦ", "Ⓧ", "Ⓨ", "Ⓩ", "Ⲁ", "Ⲃ", "Ⲅ", "Ⲇ",
      "Ⲉ", "Ⲋ", "Ⲍ", "Ⲏ", "Ⲑ", "Ⲓ", "Ⲕ", "Ⲗ", "Ⲙ", "Ⲛ", "Ⲝ", "Ⲟ", "Ⲡ", "Ⲣ",
      "Ⲥ", "Ⲧ", "Ⲩ", "Ⲫ", "Ⲭ", "Ⲯ", "Ⲱ", "Ⲳ", "Ⲵ", "Ⲷ", "Ⲹ", "Ⲻ", "Ⲽ", "Ⲿ",
      "Ⳁ", "Ⳃ", "Ⳅ", "Ⳇ", "Ⳉ", "Ⳋ", "Ⳍ", "Ⳏ", "Ⳑ", "Ⳓ", "Ⳕ", "Ⳗ", "Ⳙ", "Ⳛ",
      "Ⳝ", "Ⳟ", "Ⳡ", "Ⳣ", "Ⳬ", "Ⳮ", "Ⳳ", "Ꚁ", "Ꚃ", "Ꚅ", "Ꚇ", "Ꚉ", "Ꚋ", "Ꚍ",
      "Ꚏ", "Ꚑ", "Ꚓ", "Ꚕ", "Ꚗ", "Ꚙ", "Ꚛ", "Ꞁ", "Ꞃ", "Ꞅ", "Ꞇ", "Ꞌ", "Ꞑ", "Ꞓ",
      "Ꞗ", "Ꞙ", "Ꞛ", "Ꞝ", "Ꞟ", "Ꞡ", "Ꞣ", "Ꞥ", "Ꞧ", "Ꞩ", "Ʞ", "Ʇ", "Ʝ", "Ꞵ",
      "Ꞷ", "Ꞹ", "Ꞻ", "Ꞽ", "Ꞿ", "Ꟁ", "Ꟃ", "Ꞔ", "Ʂ", "Ᶎ", "Ꟈ", "Ꟊ", "Ꟑ", "Ꟗ",
      "Ꟙ", "Ꟶ">>

LowerCase ==
    <<"a", "b", "c", "d", "e", "f", "g", "h", "i", "j", "k", "l", "m", "n",
      "o", "p", "q", "r", "s", "t", "u", "v", "w", "x", "y", "z", "à", "á",
      "â", "ã", "ä", "å", "æ", "ç", "è", "é", "ê", "ë", "ì", "í", "î", "ï",
      "ð", "ñ", "ò", "ó", "ô", "õ", "ö", "ø", "ù", "ú", "û", "ü", "ý", "þ",
      "ƃ", "ƅ", "ƈ", "ƌ", "ǝ", "ƒ", "ƙ", "ơ", "ƣ", "ƥ", "ʀ", "ƨ", "ʃ", "ƭ",
      "ʈ", "ư", "ʊ", "ʋ", "ƴ", "ƶ", "ʒ", "ƹ", "ƽ", "ǆ", "ǆ", "ǉ", "ǉ", "ǌ",
      "ǌ", "ǎ", "ǐ", "ǒ", "ǔ", "ǖ", "ǘ", "ǚ", "ǜ", "ǟ", "ǡ", "ǣ", "ǥ", "ǧ",
      "ǩ", "ǫ", "ǭ", "ǯ", "ǳ", "ǳ", "ǵ", "ƕ", "ƿ", "ǹ", "ǻ", "ǽ", "ǿ", "ά",
      "έ", "ή", "ί", "ό", "ύ", "ώ", "α", "β", "γ", "δ", "ε", "ζ", "η", "θ",
      "ι", "κ", "λ", "μ", "ν", "ξ", "ο", "π", "ρ", "σ", "τ", "υ", "φ", "χ",
      "ψ", "ω", "ϊ", "ϋ", "ϗ", "ϙ", "ϛ", "ϝ", "ϟ", "ϡ", "ϣ", "ϥ", "ϧ", "ϩ",
      "ϫ", "ϭ", "ϯ", "θ", "ϸ", "ϲ", "ϻ", "ҁ", "ҋ", "ҍ", "ҏ", "ґ", "ғ", "ҕ",
      "җ", "ҙ", "қ", "ҝ", "ҟ", "ҡ", "ң", "ҥ", "ҧ", "ҩ", "ҫ", "ҭ", "ү", "ұ",
      "ҳ", "ҵ", "ҷ", "ҹ", "һ", "ҽ", "ҿ", "ӏ", "ӂ", "ӄ", "ӆ", "ӈ", "ӊ", "ӌ",
      "ӎ", "ӑ", "ӓ", "ӕ", "ӗ", "ә", "ӛ", "ӝ", "ӟ", "ӡ", "ӣ", "ӥ", "ӧ", "ө",
      "ӫ", "ӭ", "ӯ", "ӱ", "ӳ", "ӵ", "ӷ", "ӹ", "ӻ", "ӽ", "ӿ", "ꮀ", "ꮁ", "ꮂ",
      "ꮃ", "ꮄ", "ꮅ", "ꮆ", "ꮇ", "ꮈ", "ꮉ", "ꮊ", "ꮋ", "ꮌ", "ꮍ", "ꮎ", "ꮏ", "ꮐ",
      "ꮑ", "ꮒ", "ꮓ", "ꮔ", "ꮕ", "ꮖ", "ꮗ", "ꮘ", "ꮙ", "ꮚ", "ꮛ", "ꮜ", "ꮝ", "ꮞ",
      "ꮟ", "ꮠ", "ꮡ", "ꮢ", "ꮣ", "ꮤ", "ꮥ", "ꮦ", "ꮧ", "ꮨ", "ꮩ", "ꮪ", "ꮫ", "ꮬ",
      "ꮭ", "ꮮ", "ꮯ", "ꮰ", "ꮱ", "ꮲ", "ꮳ", "ꮴ", "ꮵ", "ꮶ", "ꮷ", "ꮸ", "ꮹ", "ꮺ",
      "ꮻ", "ꮼ", "ꮽ", "ꮾ", "ꮿ", "ᏸ", "ᏹ", "ᏺ", "ᏻ", "ᏼ", "ᏽ", "ა", "ბ", "გ",
      "დ", "ე", "ვ", "ზ", "თ", "ი", "კ", "ლ", "მ", "ნ", "ო", "პ", "ჟ", "რ",
      "ს", "ტ", "უ", "ფ", "ქ", "ღ", "ყ", "შ", "ჩ", "ც", "ძ", "წ", "ჭ", "ხ",
      "ჯ", "ჰ", "ჱ", "ჲ", "ჳ", "ჴ", "ჵ", "ჶ", "ჷ", "ჸ", "ჹ", "ჺ", "ჽ", "ჾ",
      "ჿ", "ẁ", "ẃ", "ẅ", "ẇ", "ẉ", "ẋ", "ẍ", "ẏ", "ẑ", "ẓ", "ẕ", "ß", "ạ",
      "ả", "ấ", "ầ", "ẩ", "ẫ", "ậ", "ắ", "ằ", "ẳ", "ẵ", "ặ", "ẹ", "ẻ", "ẽ",
      "ế", "ề", "ể", "ễ", "ệ", "ỉ", "ị", "ọ", "ỏ", "ố", "ồ", "ổ", "ỗ", "ộ",
      "ớ", "ờ", "ở", "ỡ", "ợ", "ụ", "ủ", "ứ", "ừ", "ử", "ữ", "ự", "ỳ", "ỵ",
      "ỷ", "ỹ", "ỻ", "ỽ", "ỿ", "ᾀ", "ᾁ", "ᾂ", "ᾃ", "ᾄ", "ᾅ", "ᾆ", "ᾇ", "ᾐ",
      "ᾑ", "ᾒ", "ᾓ", "ᾔ", "ᾕ", "ᾖ", "ᾗ", "ᾠ", "ᾡ", "ᾢ", "ᾣ", "ᾤ", "ᾥ", "ᾦ",
      "ᾧ", "ᾰ", "ᾱ", "ᾳ", "ῃ", "ῐ", "ῑ", "ῠ", "ῡ", "ῥ", "ῳ", "ↄ", "ⓐ", "ⓑ",
      "ⓒ", "ⓓ", "ⓔ", "ⓕ", "ⓖ", "ⓗ", "ⓘ", "ⓙ", "ⓚ", "ⓛ", "ⓜ", "ⓝ", "ⓞ", "ⓟ",
      "ⓠ", "ⓡ", "ⓢ", "ⓣ", "ⓤ", "ⓥ", "ⓦ", "ⓧ", "ⓨ", "ⓩ", "ⲁ", "ⲃ", "ⲅ", "ⲇ",
      "ⲉ", "ⲋ", "ⲍ", "ⲏ", "ⲑ", "ⲓ", "ⲕ", "ⲗ", "ⲙ", "ⲛ", "ⲝ", "ⲟ", "ⲡ", "ⲣ",
      "ⲥ", "ⲧ", "ⲩ", "ⲫ", "ⲭ", "ⲯ", "ⲱ", "ⲳ", "ⲵ", "ⲷ", "ⲹ", "ⲻ", "ⲽ", "ⲿ",
      "ⳁ", "ⳃ", "ⳅ", "ⳇ", "ⳉ", "ⳋ", "ⳍ", "ⳏ", "ⳑ", "ⳓ", "ⳕ", "ⳗ", "ⳙ", "ⳛ",
      "ⳝ", "ⳟ", "ⳡ", "ⳣ", "ⳬ", "ⳮ", "ⳳ", "ꚁ", "ꚃ", "ꚅ", "ꚇ", "ꚉ", "ꚋ", "ꚍ",
      "ꚏ", "ꚑ", "ꚓ", "ꚕ", "ꚗ", "ꚙ", "ꚛ", "ꞁ", "ꞃ", "ꞅ", "ꞇ", "ꞌ", "ꞑ", "ꞓ",
      "ꞗ", "ꞙ", "ꞛ", "ꞝ", "ꞟ", "ꞡ", "ꞣ", "ꞥ", "ꞧ", "ꞩ", "ʞ", "ʇ", "ʝ", "ꞵ",
      "ꞷ", "ꞹ", "ꞻ", "ꞽ", "ꞿ", "ꟁ", "ꟃ", "ꞔ", "ʂ", "ᶎ", "ꟈ", "ꟊ", "ꟑ", "ꟗ",
      "ꟙ", "ꟶ">>

\* the capitals whose lower-case form cannot be written in a string here:
\* str.lower changes them, lower_char has no value for them
NoLowerForm ==
    {"Ɓ", "Ɔ", "Ɖ", "Ɗ", "Ə", "Ɛ", "Ɠ", "Ɣ", "Ɩ", "Ɨ", "Ɯ", "Ɲ", "Ɵ", "Ͻ",
      "Ͼ", "Ͽ", "Ⴀ", "Ⴁ", "Ⴂ", "Ⴃ", "Ⴄ", "Ⴅ", "Ⴆ", "Ⴇ", "Ⴈ", "Ⴉ", "Ⴊ", "Ⴋ",
      "Ⴌ", "Ⴍ", "Ⴎ", "Ⴏ", "Ⴐ", "Ⴑ", "Ⴒ", "Ⴓ", "Ⴔ", "Ⴕ", "Ⴖ", "Ⴗ", "Ⴘ", "Ⴙ",
      "Ⴚ", "Ⴛ", "Ⴜ", "Ⴝ", "Ⴞ", "Ⴟ", "Ⴠ", "Ⴡ", "Ⴢ", "Ⴣ", "Ⴤ", "Ⴥ", "Ⴧ", "Ⴭ",
      "Ꭰ", "Ꭱ", "Ꭲ", "Ꭳ", "Ꭴ", "Ꭵ", "Ꭶ", "Ꭷ", "Ꭸ", "Ꭹ", "Ꭺ", "Ꭻ", "Ꭼ", "Ꭽ",
      "Ꭾ", "Ꭿ", "Ὰ", "Ά", "Ὲ", "Έ", "Ὴ", "Ή", "Ὶ", "Ί", "Ὺ", "Ύ", "Ὸ", "Ό",
      "Ὼ", "Ώ", "Ɥ", "Ɦ", "Ɜ", "Ɡ", "Ɬ", "Ɪ", "Ꭓ"}

\* the character each capital becomes
to_lower ==
    [c \in {UpperCase[n] : n \in 1..Len(UpperCase)} |->
        LowerCase[CHOOSE n \in 1..Len(UpperCase) : UpperCase[n] = c]]

\* str.lower on one character
lower_char(c) ==
    CASE c \in DOMAIN to_lower -> to_lower[c]
      [] c \notin DOMAIN to_lower /\ c \notin NoLowerForm -> c

\* str.strip(): the white space at both ends goes. White space is what
\* str.isspace tells of a character: tab, newline, vertical tab, form feed,
\* carriage return, U+001C to U+001F, the space, U+0085, U+00A0 and U+1680
\* (the spaces from U+2000 on do not occur in the texts tried)
Whitespace ==
    {"\t", "\n", "", "\f", "\r", "", "", "", "", " ",
     "", " ", " "}

RECURSIVE lstrip(_)
lstrip(s) == IF s # <<>> /\ Head(s) \in Whitespace THEN lstrip(Tail(s)) ELSE s

RECURSIVE rstrip(_)
rstrip(s) ==
    IF s # <<>> /\ s[Len(s)] \in Whitespace THEN rstrip(SubSeq(s, 1, Len(s) - 1)) ELSE s

strip(s) == lstrip(rstrip(s))

\* the characters with the Unicode property Cased that are not
\* case-ignorable, among those a string of this module can hold
Cased ==
    {"A", "B", "C", "D", "E", "F", "G", "H", "I", "J", "K", "L", "M", "N",
     "O", "P", "Q", "R", "S", "T", "U", "V", "W", "X", "Y", "Z", "a", "b",
     "c", "d", "e", "f", "g", "h", "i", "j", "k", "l", "m", "n", "o", "p",
     "q", "r", "s", "t", "u", "v", "w", "x", "y", "z", "ª", "µ", "º", "À",
     "Á", "Â", "Ã", "Ä", "Å", "Æ", "Ç", "È", "É", "Ê", "Ë", "Ì", "Í", "Î",
     "Ï", "Ð", "Ñ", "Ò", "Ó", "Ô", "Õ", "Ö", "Ø", "Ù", "Ú", "Û", "Ü", "Ý",
     "Þ", "ß", "à", "á", "â", "ã", "ä", "å", "æ", "ç", "è", "é", "ê", "ë",
     "ì", "í", "î", "ï", "ð", "ñ", "ò", "ó", "ô", "õ", "ö", "ø", "ù", "ú",
     "û", "ü", "ý", "þ", "ÿ", "ƀ", "Ɓ", "Ƃ", "ƃ", "Ƅ", "ƅ", "Ɔ", "Ƈ", "ƈ",
     "Ɖ", "Ɗ", "Ƌ", "ƌ", "ƍ", "Ǝ", "Ə", "Ɛ", "Ƒ", "ƒ", "Ɠ", "Ɣ", "ƕ", "Ɩ",
     "Ɨ", "Ƙ", "ƙ", "ƚ", "ƛ", "Ɯ", "Ɲ", "ƞ", "Ɵ", "Ơ", "ơ", "Ƣ", "ƣ", "Ƥ",
     "ƥ", "Ʀ", "Ƨ", "ƨ", "Ʃ", "ƪ", "ƫ", "Ƭ", "ƭ", "Ʈ", "Ư", "ư", "Ʊ", "Ʋ",
     "Ƴ", "ƴ", "Ƶ", "ƶ", "Ʒ", "Ƹ", "ƹ", "ƺ", "Ƽ", "ƽ", "ƾ", "ƿ", "Ǆ", "ǅ",
     "ǆ", "Ǉ", "ǈ", "ǉ", "Ǌ", "ǋ", "ǌ", "Ǎ", "ǎ", "Ǐ", "ǐ", "Ǒ", "ǒ", "Ǔ",
     "ǔ", "Ǖ", "ǖ", "Ǘ", "ǘ", "Ǚ", "ǚ", "Ǜ", "ǜ", "ǝ", "Ǟ", "ǟ", "Ǡ", "ǡ",
     "Ǣ", "ǣ", "Ǥ", "ǥ", "Ǧ", "ǧ", "Ǩ", "ǩ", "Ǫ", "ǫ", "Ǭ", "ǭ", "Ǯ", "ǯ",
     "ǰ", "Ǳ", "ǲ", "ǳ", "Ǵ", "ǵ", "Ƕ", "Ƿ", "Ǹ", "ǹ", "Ǻ", "ǻ", "Ǽ", "ǽ",
     "Ǿ", "ǿ", "ʀ", "ʁ", "ʂ", "ʃ", "ʄ", "ʅ", "ʆ", "ʇ", "ʈ", "ʉ", "ʊ", "ʋ",
     "ʌ", "ʍ", "ʎ", "ʏ", "ʐ", "ʑ", "ʒ", "ʓ", "ʕ", "ʖ", "ʗ", "ʘ", "ʙ", "ʚ",
     "ʛ", "ʜ", "ʝ", "ʞ", "ʟ", "ʠ", "ʡ", "ʢ", "ʣ", "ʤ", "ʥ", "ʦ", "ʧ", "ʨ",
     "ʩ", "ʪ", "ʫ", "ʬ", "ʭ", "ʮ", "ʯ", "Ά", "Έ", "Ή", "Ί", "Ό", "Ύ", "Ώ",
     "ΐ", "Α", "Β", "Γ", "Δ", "Ε", "Ζ", "Η", "Θ", "Ι", "Κ", "Λ", "Μ", "Ν",
     "Ξ", "Ο", "Π", "Ρ", "Σ", "Τ", "Υ", "Φ", "Χ", "Ψ", "Ω", "Ϊ", "Ϋ", "ά",
     "έ", "ή", "ί", "ΰ", "α", "β", "γ", "δ", "ε", "ζ", "η", "θ", "ι", "κ",
     "λ", "μ", "ν", "ξ", "ο", "π", "ρ", "ς", "σ", "τ", "υ", "φ", "χ", "ψ",
     "ω", "ϊ", "ϋ", "ό", "ύ", "ώ", "Ϗ", "ϐ", "ϑ", "ϒ", "ϓ", "ϔ", "ϕ", "ϖ",
     "ϗ", "Ϙ", "ϙ", "Ϛ", "ϛ", "Ϝ", "ϝ", "Ϟ", "ϟ", "Ϡ", "ϡ", "Ϣ", "ϣ", "Ϥ",
     "ϥ", "Ϧ", "ϧ", "Ϩ", "ϩ", "Ϫ", "ϫ", "Ϭ", "ϭ", "Ϯ", "ϯ", "ϰ", "ϱ", "ϲ",
     "ϳ", "ϴ", "ϵ", "Ϸ", "ϸ", "Ϲ", "Ϻ", "ϻ", "ϼ", "Ͻ", "Ͼ", "Ͽ", "Ҁ", "ҁ",
     "Ҋ", "ҋ", "Ҍ", "ҍ", "Ҏ", "ҏ", "Ґ", "ґ", "Ғ", "ғ", "Ҕ", "ҕ", "Җ", "җ",
     "Ҙ", "ҙ", "Қ", "қ", "Ҝ", "ҝ", "Ҟ", "ҟ", "Ҡ", "ҡ", "Ң", "ң", "Ҥ", "ҥ",
     "Ҧ", "ҧ", "Ҩ", "ҩ", "Ҫ", "ҫ", "Ҭ", "ҭ", "Ү", "ү", "Ұ", "ұ", "Ҳ", "ҳ",
     "Ҵ", "ҵ", "Ҷ", "ҷ", "Ҹ", "ҹ", "Һ", "һ", "Ҽ", "ҽ", "Ҿ", "ҿ", "Ӏ", "Ӂ",
     "ӂ", "Ӄ", "ӄ", "Ӆ", "ӆ", "Ӈ", "ӈ", "Ӊ", "ӊ", "Ӌ", "ӌ", "Ӎ", "ӎ", "ӏ",
     "Ӑ", "ӑ", "Ӓ", "ӓ", "Ӕ", "ӕ", "Ӗ", "ӗ", "Ә", "ә", "Ӛ", "ӛ", "Ӝ", "ӝ",
     "Ӟ", "ӟ", "Ӡ", "ӡ", "Ӣ", "ӣ", "Ӥ", "ӥ", "Ӧ", "ӧ", "Ө", "ө", "Ӫ", "ӫ",
     "Ӭ", "ӭ", "Ӯ", "ӯ", "Ӱ", "ӱ", "Ӳ", "ӳ", "Ӵ", "ӵ", "Ӷ", "ӷ", "Ӹ", "ӹ",
     "Ӻ", "ӻ", "Ӽ", "ӽ", "Ӿ", "ӿ", "ր", "ց", "ւ", "փ", "ք", "օ", "ֆ", "և",
     "ֈ", "Ⴀ", "Ⴁ", "Ⴂ", "Ⴃ", "Ⴄ", "Ⴅ", "Ⴆ", "Ⴇ", "Ⴈ", "Ⴉ", "Ⴊ", "Ⴋ", "Ⴌ",
     "Ⴍ", "Ⴎ", "Ⴏ", "Ⴐ", "Ⴑ", "Ⴒ", "Ⴓ", "Ⴔ", "Ⴕ", "Ⴖ", "Ⴗ", "Ⴘ", "Ⴙ", "Ⴚ",
     "Ⴛ", "Ⴜ", "Ⴝ", "Ⴞ", "Ⴟ", "Ⴠ", "Ⴡ", "Ⴢ", "Ⴣ", "Ⴤ", "Ⴥ", "Ⴧ", "Ⴭ", "ა",
     "ბ", "გ", "დ", "ე", "ვ", "ზ", "თ", "ი", "კ", "ლ", "მ", "ნ", "ო", "პ",
     "ჟ", "რ", "ს", "ტ", "უ", "ფ", "ქ", "ღ", "ყ", "შ", "ჩ", "ც", "ძ", "წ",
     "ჭ", "ხ", "ჯ", "ჰ", "ჱ", "ჲ", "ჳ", "ჴ", "ჵ", "ჶ", "ჷ", "ჸ", "ჹ", "ჺ",
     "ჽ", "ჾ", "ჿ", "Ꭰ", "Ꭱ", "Ꭲ", "Ꭳ", "Ꭴ", "Ꭵ", "Ꭶ", "Ꭷ", "Ꭸ", "Ꭹ", "Ꭺ",
     "Ꭻ", "Ꭼ", "Ꭽ", "Ꭾ", "Ꭿ", "Ꮀ", "Ꮁ", "Ꮂ", "Ꮃ", "Ꮄ", "Ꮅ", "Ꮆ", "Ꮇ", "Ꮈ",
     "Ꮉ", "Ꮊ", "Ꮋ", "Ꮌ", "Ꮍ", "Ꮎ", "Ꮏ", "Ꮐ", "Ꮑ", "Ꮒ", "Ꮓ", "Ꮔ", "Ꮕ", "Ꮖ",
     "Ꮗ", "Ꮘ", "Ꮙ", "Ꮚ", "Ꮛ", "Ꮜ", "Ꮝ", "Ꮞ", "Ꮟ", "Ꮠ", "Ꮡ", "Ꮢ", "Ꮣ", "Ꮤ",
     "Ꮥ", "Ꮦ", "Ꮧ", "Ꮨ", "Ꮩ", "Ꮪ", "Ꮫ", "Ꮬ", "Ꮭ", "Ꮮ", "Ꮯ", "Ꮰ", "Ꮱ", "Ꮲ",
     "Ꮳ", "Ꮴ", "Ꮵ", "Ꮶ", "Ꮷ", "Ꮸ", "Ꮹ", "Ꮺ", "Ꮻ", "Ꮼ", "Ꮽ", "Ꮾ", "Ꮿ", "Ᏸ",
     "Ᏹ", "Ᏺ", "Ᏻ", "Ᏼ", "Ᏽ", "ᏸ", "ᏹ", "ᏺ", "ᏻ", "ᏼ", "ᏽ", "ᲀ", "ᲁ", "ᲂ",
     "ᲃ", "ᲄ", "ᲅ", "ᲆ", "ᲇ", "ᲈ", "Ა", "Ბ", "Გ", "Დ", "Ე", "Ვ", "Ზ", "Თ",
     "Ი", "Კ", "Ლ", "Მ", "Ნ", "Ო", "Პ", "Ჟ", "Რ", "Ს", "Ტ", "Უ", "Ფ", "Ქ",
     "Ღ", "Ყ", "Შ", "Ჩ", "Ც", "Ძ", "Წ", "Ჭ", "Ხ", "Ჯ", "Ჰ", "Ჱ", "Ჲ", "Ჳ",
     "Ჴ", "Ჵ", "Ჶ", "Ჷ", "Ჸ", "Ჹ", "Ჺ", "Ჽ", "Ჾ", "Ჿ", "ᶀ", "ᶁ", "ᶂ", "ᶃ",
     "ᶄ", "ᶅ", "ᶆ", "ᶇ", "ᶈ", "ᶉ", "ᶊ", "ᶋ", "ᶌ", "ᶍ", "ᶎ", "ᶏ", "ᶐ", "ᶑ",
     "ᶒ", "ᶓ", "ᶔ", "ᶕ", "ᶖ", "ᶗ", "ᶘ", "ᶙ", "ᶚ", "Ẁ", "ẁ", "Ẃ", "ẃ", "Ẅ",
     "ẅ", "Ẇ", "ẇ", "Ẉ", "ẉ", "Ẋ", "ẋ", "Ẍ", "ẍ", "Ẏ", "ẏ", "Ẑ", "ẑ", "Ẓ",
     "ẓ", "Ẕ", "ẕ", "ẖ", "ẗ", "ẘ", "ẙ", "ẚ", "ẛ", "ẜ", "ẝ", "ẞ", "ẟ", "Ạ",
     "ạ", "Ả", "ả", "Ấ", "ấ", "Ầ", "ầ", "Ẩ", "ẩ", "Ẫ", "ẫ", "Ậ", "ậ", "Ắ",
     "ắ", "Ằ", "ằ", "Ẳ", "ẳ", "Ẵ", "ẵ", "Ặ", "ặ", "Ẹ", "ẹ", "Ẻ", "ẻ", "Ẽ",
     "ẽ", "Ế", "ế", "Ề", "ề", "Ể", "ể", "Ễ", "ễ", "Ệ", "ệ", "Ỉ", "ỉ", "Ị",
     "ị", "Ọ", "ọ", "Ỏ", "ỏ", "Ố", "ố", "Ồ", "ồ", "Ổ", "ổ", "Ỗ", "ỗ", "Ộ",
     "ộ", "Ớ", "ớ", "Ờ", "ờ", "Ở", "ở", "Ỡ", "ỡ", "Ợ", "ợ", "Ụ", "ụ", "Ủ",
     "ủ", "Ứ", "ứ", "Ừ", "ừ", "Ử", "ử", "Ữ", "ữ", "Ự", "ự", "Ỳ", "ỳ", "Ỵ",
     "ỵ", "Ỷ", "ỷ", "Ỹ", "ỹ", "Ỻ", "ỻ", "Ỽ", "ỽ", "Ỿ", "ỿ", "ᾀ", "ᾁ", "ᾂ",
     "ᾃ", "ᾄ", "ᾅ", "ᾆ", "ᾇ", "ᾈ", "ᾉ", "ᾊ", "ᾋ", "ᾌ", "ᾍ", "ᾎ", "ᾏ", "ᾐ",
     "ᾑ", "ᾒ", "ᾓ", "ᾔ", "ᾕ", "ᾖ", "ᾗ", "ᾘ", "ᾙ", "ᾚ", "ᾛ", "ᾜ", "ᾝ", "ᾞ",
     "ᾟ", "ᾠ", "ᾡ", "ᾢ", "ᾣ", "ᾤ", "ᾥ", "ᾦ", "ᾧ", "ᾨ", "ᾩ", "ᾪ", "ᾫ", "ᾬ",
     "ᾭ", "ᾮ", "ᾯ", "ᾰ", "ᾱ", "ᾲ", "ᾳ", "ᾴ", "ᾶ", "ᾷ", "Ᾰ", "Ᾱ", "Ὰ", "Ά",
     "ᾼ", "ι", "ῂ", "ῃ", "ῄ", "ῆ", "ῇ", "Ὲ", "Έ", "Ὴ", "Ή", "ῌ", "ῐ", "ῑ",
     "ῒ", "ΐ", "ῖ", "ῗ", "Ῐ", "Ῑ", "Ὶ", "Ί", "ῠ", "ῡ", "ῢ", "ΰ", "ῤ", "ῥ",
     "ῦ", "ῧ", "Ῠ", "Ῡ", "Ὺ", "Ύ", "Ῥ", "ῲ", "ῳ", "ῴ", "ῶ", "ῷ", "Ὸ", "Ό",
     "Ὼ", "Ώ", "ῼ", "Ↄ", "ↄ", "Ⓐ", "Ⓑ", "Ⓒ", "Ⓓ", "Ⓔ", "Ⓕ", "Ⓖ", "Ⓗ", "Ⓘ",
     "Ⓙ", "Ⓚ", "Ⓛ", "Ⓜ", "Ⓝ", "Ⓞ", "Ⓟ", "Ⓠ", "Ⓡ", "Ⓢ", "Ⓣ", "Ⓤ", "Ⓥ", "Ⓦ",
     "Ⓧ", "Ⓨ", "Ⓩ", "ⓐ", "ⓑ", "ⓒ", "ⓓ", "ⓔ", "ⓕ", "ⓖ", "ⓗ", "ⓘ", "ⓙ", "ⓚ",
     "ⓛ", "ⓜ", "ⓝ", "ⓞ", "ⓟ", "ⓠ", "ⓡ", "ⓢ", "ⓣ", "ⓤ", "ⓥ", "ⓦ", "ⓧ", "ⓨ",
     "ⓩ", "Ⲁ", "ⲁ", "Ⲃ", "ⲃ", "Ⲅ", "ⲅ", "Ⲇ", "ⲇ", "Ⲉ", "ⲉ", "Ⲋ", "ⲋ", "Ⲍ",
     "ⲍ", "Ⲏ", "ⲏ", "Ⲑ", "ⲑ", "Ⲓ", "ⲓ", "Ⲕ", "ⲕ", "Ⲗ", "ⲗ", "Ⲙ", "ⲙ", "Ⲛ",
     "ⲛ", "Ⲝ", "ⲝ", "Ⲟ", "ⲟ", "Ⲡ", "ⲡ", "Ⲣ", "ⲣ", "Ⲥ", "ⲥ", "Ⲧ", "ⲧ", "Ⲩ",
     "ⲩ", "Ⲫ", "ⲫ", "Ⲭ", "ⲭ", "Ⲯ", "ⲯ", "Ⲱ", "ⲱ", "Ⲳ", "ⲳ", "Ⲵ", "ⲵ", "Ⲷ",
     "ⲷ", "Ⲹ", "ⲹ", "Ⲻ", "ⲻ", "Ⲽ", "ⲽ", "Ⲿ", "ⲿ", "Ⳁ", "ⳁ", "Ⳃ", "ⳃ", "Ⳅ",
     "ⳅ", "Ⳇ", "ⳇ", "Ⳉ", "ⳉ", "Ⳋ", "ⳋ", "Ⳍ", "ⳍ", "Ⳏ", "ⳏ", "Ⳑ", "ⳑ", "Ⳓ",
     "ⳓ", "Ⳕ", "ⳕ", "Ⳗ", "ⳗ", "Ⳙ", "ⳙ", "Ⳛ", "ⳛ", "Ⳝ", "ⳝ", "Ⳟ", "ⳟ", "Ⳡ",
     "ⳡ", "Ⳣ", "ⳣ", "ⳤ", "Ⳬ", "ⳬ", "Ⳮ", "ⳮ", "Ⳳ", "ⳳ", "Ꚁ", "ꚁ", "Ꚃ", "ꚃ",
     "Ꚅ", "ꚅ", "Ꚇ", "ꚇ", "Ꚉ", "ꚉ", "Ꚋ", "ꚋ", "Ꚍ", "ꚍ", "Ꚏ", "ꚏ", "Ꚑ", "ꚑ",
     "Ꚓ", "ꚓ", "Ꚕ", "ꚕ", "Ꚗ", "ꚗ", "Ꚙ", "ꚙ", "Ꚛ", "ꚛ", "Ꞁ", "ꞁ", "Ꞃ", "ꞃ",
     "Ꞅ", "ꞅ", "Ꞇ", "ꞇ", "Ꞌ", "ꞌ", "Ɥ", "ꞎ", "Ꞑ", "ꞑ", "Ꞓ", "ꞓ", "ꞔ", "ꞕ",
     "Ꞗ", "ꞗ", "Ꞙ", "ꞙ", "Ꞛ", "ꞛ", "Ꞝ", "ꞝ", "Ꞟ", "ꞟ", "Ꞡ", "ꞡ", "Ꞣ", "ꞣ",
     "Ꞥ", "ꞥ", "Ꞧ", "ꞧ", "Ꞩ", "ꞩ", "Ɦ", "Ɜ", "Ɡ", "Ɬ", "Ɪ", "ꞯ", "Ʞ", "Ʇ",
     "Ʝ", "Ꭓ", "Ꞵ", "ꞵ", "Ꞷ", "ꞷ", "Ꞹ", "ꞹ", "Ꞻ", "ꞻ", "Ꞽ", "ꞽ", "Ꞿ", "ꞿ",
     "Ꟁ", "ꟁ", "Ꟃ", "ꟃ", "Ꞔ", "Ʂ", "Ᶎ", "Ꟈ", "ꟈ", "Ꟊ", "ꟊ", "Ꟑ", "ꟑ", "ꟓ",
     "ꟕ", "Ꟗ", "ꟗ", "Ꟙ", "ꟙ", "Ꟶ", "ꟶ", "ꟺ", "ꮀ", "ꮁ", "ꮂ", "ꮃ", "ꮄ", "ꮅ",
     "ꮆ", "ꮇ", "ꮈ", "ꮉ", "ꮊ", "ꮋ", "ꮌ", "ꮍ", "ꮎ", "ꮏ", "ꮐ", "ꮑ", "ꮒ", "ꮓ",
     "ꮔ", "ꮕ", "ꮖ", "ꮗ", "ꮘ", "ꮙ", "ꮚ", "ꮛ", "ꮜ", "ꮝ", "ꮞ", "ꮟ", "ꮠ", "ꮡ",
     "ꮢ", "ꮣ", "ꮤ", "ꮥ", "ꮦ", "ꮧ", "ꮨ", "ꮩ", "ꮪ", "ꮫ", "ꮬ", "ꮭ", "ꮮ", "ꮯ",
     "ꮰ", "ꮱ", "ꮲ", "ꮳ", "ꮴ", "ꮵ", "ꮶ", "ꮷ", "ꮸ", "ꮹ", "ꮺ", "ꮻ", "ꮼ", "ꮽ",
     "ꮾ", "ꮿ"}

\* the characters with the Unicode property Case_Ignorable, among those a
\* string of this module can hold (the grave accent, U+0060, is one more
\* and cannot be written)
CaseIgnorable ==
    {"'", ".", ":", "^", "¨", "­", "¯", "´", "·", "¸", "ʰ", "ʱ", "ʲ", "ʳ",
     "ʴ", "ʵ", "ʶ", "ʷ", "ʸ", "ʹ", "ʺ", "ʻ", "ʼ", "ʽ", "ʾ", "ʿ", "ˀ", "ˁ",
     "˂", "˃", "˄", "˅", "ˆ", "ˇ", "ˈ", "ˉ", "ˊ", "ˋ", "ˌ", "ˍ", "ˎ", "ˏ",
     "ː", "ˑ", "˒", "˓", "˔", "˕", "˖", "˗", "˘", "˙", "˚", "˛", "˜", "˝",
     "˞", "˟", "ˠ", "ˡ", "ˢ", "ˣ", "ˤ", "˥", "˦", "˧", "˨", "˩", "˪", "˫",
     "ˬ", "˭", "ˮ", "˯", "˰", "˱", "˲", "˳", "˴", "˵", "˶", "˷", "˸", "˹",
     "˺", "˻", "˼", "˽", "˾", "˿", "΄", "΅", "·", "҃", "҄", "҅", "҆", "҇",
     "҈", "҉", "֑", "֒", "֓", "֔", "֕", "֖", "֗", "֘", "֙", "֚", "֛", "֜",
     "֝", "֞", "֟", "֠", "֡", "֢", "֣", "֤", "֥", "֦", "֧", "֨", "֩", "֪",
     "֫", "֬", "֭", "֮", "֯", "ְ", "ֱ", "ֲ", "ֳ", "ִ", "ֵ", "ֶ", "ַ", "ָ",
     "ֹ", "ֺ", "ֻ", "ּ", "ֽ", "ֿ", "ׁ", "ׂ", "ׄ", "ׅ", "ׇ", "״", "ۖ", "ۗ",
     "ۘ", "ۙ", "ۚ", "ۛ", "ۜ", "۝", "۟", "۠", "ۡ", "ۢ", "ۣ", "ۤ", "ۥ", "ۦ",
     "ۧ", "ۨ", "۪", "۫", "۬", "ۭ", "ަ", "ާ", "ި", "ީ", "ު", "ޫ", "ެ", "ޭ",
     "ޮ", "ޯ", "ް", "߫", "߬", "߭", "߮", "߯", "߰", "߱", "߲", "߳", "ߴ", "ߵ",
     "ߺ", "߽", "࢈", "࢐", "࢑", "࢘", "࢙", "࢚", "࢛", "࢜", "࢝", "࢞", "࢟", "ࣉ",
     "࣊", "࣋", "࣌", "࣍", "࣎", "࣏", "࣐", "࣑", "࣒", "࣓", "ࣔ", "ࣕ", "ࣖ", "ࣗ",
     "ࣘ", "ࣙ", "ࣚ", "ࣛ", "ࣜ", "ࣝ", "ࣞ", "ࣟ", "࣠", "࣡", "࣢", "ࣣ", "ࣤ", "ࣥ",
     "ࣦ", "ࣧ", "ࣨ", "ࣩ", "࣪", "࣫", "࣬", "࣭", "࣮", "࣯", "ࣰ", "ࣱ", "ࣲ", "ࣳ",
     "ࣴ", "ࣵ", "ࣶ", "ࣷ", "ࣸ", "ࣹ", "ࣺ", "ࣻ", "ࣼ", "ࣽ", "ࣾ", "ࣿ", "ঁ", "়",
     "ু", "ূ", "ৃ", "ৄ", "্", "ৢ", "ৣ", "৾", "ઁ", "ં", "઼", "ુ", "ૂ", "ૃ",
     "ૄ", "ૅ", "ે", "ૈ", "્", "ૢ", "ૣ", "ૺ", "ૻ", "ૼ", "૽", "૾", "૿", "ஂ",
     "ீ", "்", "ಁ", "಼", "ಿ", "ೆ", "ೌ", "್", "ೢ", "ೣ", "ඁ", "්", "ි", "ී",
     "ු", "ූ", "ັ", "ິ", "ີ", "ຶ", "ື", "ຸ", "ູ", "຺", "ົ", "ຼ", "ໆ", "່",
     "້", "໊", "໋", "໌", "ໍ", "ྀ", "ཱྀ", "ྂ", "ྃ", "྄", "྆", "྇", "ྍ", "ྎ",
     "ྏ", "ྐ", "ྑ", "ྒ", "ྒྷ", "ྔ", "ྕ", "ྖ", "ྗ", "ྙ", "ྚ", "ྛ", "ྜ", "ྜྷ",
     "ྞ", "ྟ", "ྠ", "ྡ", "ྡྷ", "ྣ", "ྤ", "ྥ", "ྦ", "ྦྷ", "ྨ", "ྩ", "ྪ", "ྫ",
     "ྫྷ", "ྭ", "ྮ", "ྯ", "ྰ", "ྱ", "ྲ", "ླ", "ྴ", "ྵ", "ྶ", "ྷ", "ྸ", "ྐྵ",
     "ྺ", "ྻ", "ྼ", "࿆", "ႂ", "ႅ", "ႆ", "ႍ", "ႝ", "ჼ", "឴", "឵", "ិ", "ី",
     "ឹ", "ឺ", "ុ", "ូ", "ួ", "ំ", "៉", "៊", "់", "៌", "៍", "៎", "៏", "័",
     "៑", "្", "៓", "ៗ", "៝", "ᢅ", "ᢆ", "ᢩ", "ᪧ", "᪰", "᪱", "᪲", "᪳", "᪴",
     "᪵", "᪶", "᪷", "᪸", "᪹", "᪺", "᪻", "᪼", "᪽", "᪾", "ᪿ", "ᫀ", "᫁", "᫂",
     "᫃", "᫄", "᫅", "᫆", "᫇", "᫈", "᫉", "᫊", "᫋", "ᫌ", "ᫍ", "ᫎ", "ᮀ", "ᮁ",
     "ᮢ", "ᮣ", "ᮤ", "ᮥ", "ᮨ", "ᮩ", "᮫", "ᮬ", "ᮭ", "᯦", "ᯨ", "ᯩ", "ᯭ", "ᯯ",
     "ᯰ", "ᯱ", "᳐", "᳑", "᳒", "᳔", "᳕", "᳖", "᳗", "᳘", "᳙", "᳚", "᳛", "᳜",
     "᳝", "᳞", "᳟", "᳠", "᳢", "᳣", "᳤", "᳥", "᳦", "᳧", "᳨", "᳭", "᳴", "᳸",
     "᳹", "ᶛ", "ᶜ", "ᶝ", "ᶞ", "ᶟ", "ᶠ", "ᶡ", "ᶢ", "ᶣ", "ᶤ", "ᶥ", "ᶦ", "ᶧ",
     "ᶨ", "ᶩ", "ᶪ", "ᶫ", "ᶬ", "ᶭ", "ᶮ", "ᶯ", "ᶰ", "ᶱ", "ᶲ", "ᶳ", "ᶴ", "ᶵ",
     "ᶶ", "ᶷ", "ᶸ", "ᶹ", "ᶺ", "ᶻ", "ᶼ", "ᶽ", "ᶾ", "ᶿ", "᷀", "᷁", "᷂", "᷃",
     "᷄", "᷅", "᷆", "᷇", "᷈", "᷉", "᷊", "᷋", "᷌", "᷍", "᷎", "᷏", "᷐", "᷑",
     "᷒", "ᷓ", "ᷔ", "ᷕ", "ᷖ", "ᷗ", "ᷘ", "ᷙ", "ᷚ", "ᷛ", "ᷜ", "ᷝ", "ᷞ", "ᷟ",
     "ᷠ", "ᷡ", "ᷢ", "ᷣ", "ᷤ", "ᷥ", "ᷦ", "ᷧ", "ᷨ", "ᷩ", "ᷪ", "ᷫ", "ᷬ", "ᷭ",
     "ᷮ", "ᷯ", "ᷰ", "ᷱ", "ᷲ", "ᷳ", "ᷴ", "᷵", "᷶", "᷷", "᷸", "᷹", "᷺", "᷻",
     "᷼", "᷽", "᷾", "᷿", "᾽", "᾿", "῀", "῁", "῍", "῎", "῏", "῝", "῞", "῟",
     "῭", "΅", "`", "´", "῾", "ₐ", "ₑ", "ₒ", "ₓ", "ₔ", "ₕ", "ₖ", "ₗ", "ₘ",
     "ₙ", "ₚ", "ₛ", "ₜ", "⃐", "⃑", "⃒", "⃓", "⃔", "⃕", "⃖", "⃗", "⃘", "⃙",
     "⃚", "⃛", "⃜", "⃝", "⃞", "⃟", "⃠", "⃡", "⃢", "⃣", "⃤", "⃥", "⃦", "⃧",
     "⃨", "⃩", "⃪", "⃫", "⃬", "⃭", "⃮", "⃯", "⃰", "⳯", "⳰", "⳱", "ⷠ", "ⷡ",
     "ⷢ", "ⷣ", "ⷤ", "ⷥ", "ⷦ", "ⷧ", "ⷨ", "ⷩ", "ⷪ", "ⷫ", "ⷬ", "ⷭ", "ⷮ", "ⷯ",
     "ⷰ", "ⷱ", "ⷲ", "ⷳ", "ⷴ", "ⷵ", "ⷶ", "ⷷ", "ⷸ", "ⷹ", "ⷺ", "ⷻ", "ⷼ", "ⷽ",
     "ⷾ", "ⷿ", "゙", "゚", "゛", "゜", "ゝ", "ゞ", "ー", "ヽ", "ヾ", "ꓸ", "ꓹ", "ꓺ",
     "ꓻ", "ꓼ", "ꓽ", "ꚜ", "ꚝ", "ꚞ", "ꚟ", "꛰", "꛱", "ꞈ", "꞉", "꞊", "ꟲ", "ꟳ",
     "ꟴ", "ꟸ", "ꟹ", "꣄", "ꣅ", "꣠", "꣡", "꣢", "꣣", "꣤", "꣥", "꣦", "꣧", "꣨",
     "꣩", "꣪", "꣫", "꣬", "꣭", "꣮", "꣯", "꣰", "꣱", "ꣿ", "ꦀ", "ꦁ", "ꦂ", "꦳",
     "ꦶ", "ꦷ", "ꦸ", "ꦹ", "ꦼ", "ꦽ", "ꧏ", "ꧥ", "ꧦ", "ꪰ", "ꪲ", "ꪳ", "ꪴ", "ꪷ",
     "ꪸ", "ꪾ", "꪿", "꫁", "ꫝ", "ꫬ", "ꫭ", "ꫳ", "ꫴ", "꫶", "ꯥ", "ꯨ", "꯭", "﮲",
     "﮳", "﮴", "﮵", "﮶", "﮷", "﮸", "﮹", "﮺", "﮻", "﮼", "﮽", "﮾", "﮿", "﯀",
     "﯁", "﯂", "﻿", "ﾞ", "ﾟ", "￣", "￹", "￺", "￻"}

\* the nearest character before position n that is not case-ignorable is
\* cased
RECURSIVE cased_before(_, _)
cased_before(text, n) ==
    IF n = 1 THEN FALSE
    ELSE IF text[n - 1] \in CaseIgnorable THEN cased_before(text, n - 1)
    ELSE text[n - 1] \in Cased

\* the nearest character after position n that is not case-ignorable is
\* cased
RECURSIVE cased_after(_, _)
cased_after(text, n) ==
    IF n = Len(text) THEN FALSE
    ELSE IF text[n + 1] \in CaseIgnorable THEN cased_after(text, n + 1)
    ELSE text[n + 1] \in Cased

\* str.lower on a capital sigma: the final form at the end of a word, that
\* is after a cased character and not before one, case-ignorable characters
\* skipped on both sides
final_sigma(text, n) == cased_before(text, n) /\ ~cased_after(text, n)

\* message.lower()
lower_unchanged(text) == text

lower(text) ==
    [n \in 1..Len(text) |->
        IF text[n] = "Σ" /\ final_sigma(text, n) THEN "ς" ELSE lower_char(text[n])]

\* keyword in message_lower
Contains(keyword, text) ==
    \E at \in 1..(Len(text) - Len(keyword) + 1) :
        SubSeq(text, at, at + Len(keyword) - 1) = keyword

PRIORITY_ORDER ==
    <<"google_drive", "mcpEverhour", "mcpGmail", "mcpAsana", "mcpGoogleCalendar",
      "mcpGoogleDocs", "mcpGoogleSheets", "mcpSlack">>

\* ZAPIER_MCPS[mcp_name]["keywords"]
keywords(mcp_name) ==
    CASE mcp_name = "google_drive" ->
            <<<<"g", "o", "o", "g", "l", "e", " ", "d", "r", "i", "v", "e">>,
              <<"d", "r", "i", "v", "e">>,
              <<"g", "d", "r", "i", "v", "e">>>>
      [] mcp_name = "mcpEverhour" -> <<<<"e", "v", "e", "r", "h", "o", "u", "r">>>>
      [] mcp_name = "mcpGmail" -> <<<<"g", "m", "a", "i", "l">>>>
      [] mcp_name = "mcpAsana" -> <<<<"a", "s", "a", "n", "a">>>>
      [] mcp_name = "mcpGoogleCalendar" -> <<<<"c", "a", "l", "e", "n", "d", "a", "r">>>>
      [] mcp_name = "mcpGoogleDocs" -> <<<<"d", "o", "c", "s">>>>
      [] mcp_name = "mcpGoogleSheets" -> <<<<"s", "h", "e", "e", "t", "s">>>>
      [] mcp_name = "mcpSlack" -> <<<<"s", "l", "a", "c", "k">>>>

\* the loop over PRIORITY_ORDER from position n on: the first integration
\* with a keyword in message_lower is returned, None after the last
RECURSIVE ScanFrom(_, _)
ScanFrom(n, message_lower) ==
    IF n > Len(PRIORITY_ORDER) THEN "None"
    ELSE LET kws == keywords(PRIORITY_ORDER[n])
         IN IF \E k \in 1..Len(kws) : Contains(kws[k], message_lower)
            THEN PRIORITY_ORDER[n]
            ELSE ScanFrom(n + 1, message_lower)

get_mcp_by_keywords(message) == ScanFrom(1, lower(message))

\* the message texts tried: up to MaxFragments of these, one after another
Fragments ==
    {<<"d", "r", "i", "v", "e">>,
     <<"G", "m", "a", "i", "l">>,
     <<"C", "A", "L", "E", "N", "D", "A", "R">>,
     <<"d", "o", "c", "s">>,
     <<"s", "l", "a", "c", "k">>,
     <<" ">>,
     <<"a", "s", "a", "n", "a">>,
     <<"Α", "s", "a", "n", "a">>,
     <<"Σ">>,
     <<"E", "v", "e", "r", "h", "o", "u", "r">>,
     <<"s", "h", "e", "e", "t", "s">>,
     <<"d", "r", "i", "v">>,
     <<"e">>,
     <<"p", "r", "e", "c", "i", "s", "o", " ", "v", "e", "r", " ", "m", "i", "n", "h", "a", " ", "a", "g", "e", "n", "d", "a", " ", "n", "o", " ", "c", "a", "l", "e", "n", "d", "a", "r", " ", "h", "o", "j", "e">>}

RECURSIVE Concat(_)
Concat(parts) == IF parts = <<>> THEN <<>> ELSE Head(parts) \o Concat(Tail(parts))

Messages ==
    {Concat(parts) : parts \in UNION {[1..n -> Fragments] : n \in 0..MaxFragments}}

InitDetect ==
    /\ d_pc = "idle"
    /\ d_message = <<>>
    /\ d_result = "None"

\* lines 93-104: one call of get_mcp_by_keywords
DetectCalled(message) ==
    /\ d_pc = "idle"
    /\ d_pc' = "returned"
    /\ d_message' = message
    /\ d_result' = get_mcp_by_keywords(message)
    /\ UNCHANGED outsideDetect

NextDetect == \E message \in Messages : DetectCalled(message)

(***************************************************************************)
(* MessageProcessor.process_think_message, server/message_processor.py     *)
(***************************************************************************)
\* a message posted with say: its kind ("apology", "output", "err_raw"),
\* the stage or the error it comes from, and for an output the part number
Post(kind, from, part) == [kind |-> kind, from |-> from, part |-> part]

InitThink ==
    /\ t_pc = "idle"
    /\ t_args = [improve |-> FALSE, client |-> FALSE]
    /\ t_todo = 0
    /\ t_posts = <<>>
    /\ t_edits = 0
    /\ t_stages = <<>>
    /\ t_tripped = "none"
    /\ t_say_failed = FALSE

\* lines 566-575: after the prompt is final, the status edit when a client
\* was given, else the analysis
AfterPrompt(args) == IF args.client THEN "status_update" ELSE "analysing"

\* lines 556-562 and 599-605: after the apology of a tripped stage, return
AfterApologyGoesOn == "analysing"

AfterApology == "returned"

\* lines 517-549: the call; with improve_prompt and a thread history the
\* prompt improver is awaited first
ThinkCalled(improve, client) ==
    /\ t_pc = "idle"
    /\ t_args' = [improve |-> improve, client |-> client]
    /\ t_pc' = IF improve THEN "improving" ELSE AfterPrompt(t_args')
    /\ t_stages' = IF improve THEN <<"improve">>
                   ELSE IF client THEN <<>> ELSE <<"analysis">>
    /\ UNCHANGED <<t_todo, t_posts, t_edits, t_tripped, t_say_failed, outsideThink>>

\* lines 550-565: the improver returned the reformulated prompt
ImproveReturns ==
    /\ t_pc = "improving"
    /\ t_pc' = AfterPrompt(t_args)
    /\ t_stages' = IF t_args.client THEN t_stages ELSE Append(t_stages, "analysis")
    /\ UNCHANGED <<t_args, t_todo, t_posts, t_edits, t_tripped, t_say_failed,
                   outsideThink>>

\* lines 556-561: the improver raised InputGuardrailTripwireTriggered
ImproveTrips ==
    /\ t_pc = "improving"
    /\ t_pc' = "apology_say"
    /\ t_tripped' = "improve"
    /\ UNCHANGED <<t_args, t_todo, t_posts, t_edits, t_stages, t_say_failed,
                   outsideThink>>

\* lines 631-636: any other exception of the try block is caught and its
\* text is posted
ThinkExcept ==
    /\ t_pc' = "error_say"
    /\ UNCHANGED <<t_args, t_todo, t_posts, t_edits, t_stages, t_tripped, outsideThink>>

\* lines 550-555: the improver raised e
ImproveRaises ==
    /\ t_pc = "improving"
    /\ ThinkExcept
    /\ UNCHANGED t_say_failed

\* lines 570-575: the status edit returned
StatusUpdated ==
    /\ t_pc = "status_update"
    /\ t_pc' = "analysing"
    /\ t_edits' = t_edits + 1
    /\ t_stages' = Append(t_stages, "analysis")
    /\ UNCHANGED <<t_args, t_todo, t_posts, t_tripped, t_say_failed, outsideThink>>

\* lines 570-575: the status edit raised
StatusRaises ==
    /\ t_pc = "status_update"
    /\ ThinkExcept
    /\ UNCHANGED t_say_failed

\* lines 593-612: the analysis returned; the response goes out whole
\* (parts = 1) or in the parts of _split_long_message
AnalysisReturns(parts) ==
    /\ t_pc = "analysing"
    /\ t_pc' = "posting"
    /\ t_todo' = parts
    /\ UNCHANGED <<t_args, t_posts, t_edits, t_stages, t_tripped, t_say_failed,
                   outsideThink>>

\* lines 599-604: the analysis raised InputGuardrailTripwireTriggered
AnalysisTrips ==
    /\ t_pc = "analysing"
    /\ t_pc' = "apology_say"
    /\ t_tripped' = "analysis"
    /\ UNCHANGED <<t_args, t_todo, t_posts, t_edits, t_stages, t_say_failed,
                   outsideThink>>

\* lines 593-612: the analysis raised e, or its output has no length
AnalysisRaises ==
    /\ t_pc = "analysing"
    /\ ThinkExcept
    /\ UNCHANGED t_say_failed

\* lines 558-562 and 601-605: the apology is posted and the flow returns
ApologyPosted ==
    /\ t_pc = "apology_say"
    /\ t_posts' = Append(t_posts, Post("apology", t_tripped, 0))
    /\ t_pc' = AfterApology
    /\ UNCHANGED <<t_args, t_todo, t_edits, t_stages, t_tripped, t_say_failed,
                   outsideThink>>

\* lines 558 and 601: the say of the apology raised, inside the handler of
\* the tripwire: the outer handler catches it
ApologyRaises ==
    /\ t_pc = "apology_say"
    /\ ThinkExcept
    /\ t_say_failed' = TRUE

\* lines 614-629: one part of the response is posted
PartPosted ==
    /\ t_pc = "posting"
    /\ t_posts' = Append(t_posts, Post("output", "analysis", Len(t_posts) + 1))
    /\ t_todo' = t_todo - 1
    /\ t_pc' = IF t_todo = 1 THEN "returned" ELSE "posting"
    /\ UNCHANGED <<t_args, t_edits, t_stages, t_tripped, t_say_failed, outsideThink>>

\* lines 614-629: the say of a part raised
PartRaises ==
    /\ t_pc = "posting"
    /\ ThinkExcept
    /\ t_say_failed' = TRUE

\* lines 631-636: f"Erro ao processar análise: {str(e)}" is posted
ErrorPosted ==
    /\ t_pc = "error_say"
    /\ t_posts' = Append(t_posts, Post("err_raw", "exception", 0))
    /\ t_pc' = "returned"
    /\ UNCHANGED <<t_args, t_todo, t_edits, t_stages, t_tripped, t_say_failed,
                   outsideThink>>

\* line 633 raised: the exception leaves process_think_message
ErrorRaises ==
    /\ t_pc = "error_say"
    /\ t_pc' = "raised"
    /\ t_say_failed' = TRUE
    /\ UNCHANGED <<t_args, t_todo, t_posts, t_edits, t_stages, t_tripped, outsideThink>>

\* lines 526-541 and 577-591: the agents of the two stages are built with a
\* name, a model and instructions; creator.py 41-47 gives the main agent
\* its input_guardrails
input_guardrails(name) ==
    IF name = "Livia" THEN {"professional_content_guardrail"} ELSE {}

\* the agent Runner.run is given at each stage
stage_agent(stage) == IF stage = "improve" THEN "PromptImprover" ELSE "DeepThinking"

NextThink ==
    \/ \E improve \in BOOLEAN, client \in BOOLEAN : ThinkCalled(improve, client)
    \/ ImproveReturns
    \/ ImproveTrips
    \/ ImproveRaises
    \/ StatusUpdated
    \/ StatusRaises
    \/ \E parts \in 1..MaxParts : AnalysisReturns(parts)
    \/ AnalysisTrips
    \/ AnalysisRaises
    \/ ApologyPosted
    \/ ApologyRaises
    \/ PartPosted
    \/ PartRaises
    \/ ErrorPosted
    \/ ErrorRaises

(***************************************************************************)
(* MessageProcessor.process_message up to the semaphore, with              *)
(* _process_document_files and _transcribe_audio_file                      *)
(***************************************************************************)
\* lines 104-107: the phrases of the bot's own messages
EchoPhrases ==
    {<<"e", "n", "c", "o", "n", "t", "r", "e", "i", " ", "o", " ", "a", "r", "q", "u", "i", "v", "o">>,
     <<"v", "o", "c", "ê", " ", "p", "o", "d", "e", " ", "a", "c", "e", "s", "s", "á", "-", "l", "o">>,
     <<"e", "s", "t", "o", "u", " ", "à", " ", "d", "i", "s", "p", "o", "s", "i", "ç", "ã", "o">>,
     <<"n", "ã", "o", " ", "c", "o", "n", "s", "e", "g", "u", "i", " ", "e", "n", "c", "o", "n", "t", "r", "a", "r">>,
     <<"v", "o", "u", " ", "p", "r", "o", "c", "u", "r", "a", "r">>,
     <<"a", "q", "u", "i", " ", "e", "s", "t", "á">>}

\* text and any(phrase in text.lower() for phrase in [...])
is_echo_as_typed(text) ==
    text # <<>> /\ \E phrase \in EchoPhrases : Contains(phrase, text)

is_echo(text) ==
    text # <<>> /\ \E phrase \in EchoPhrases : Contains(phrase, lower(text))

\* the message texts tried
Texts ==
    {<<>>,
     <<" ">>,
     <<"\n">>,
     <<"r", "e", "s", "u", "m", "a">>,
     <<"\t", "\r">>,
     <<"A", "Q", "U", "I", " ", "E", "S", "T", "Á">>,
     <<"Ο", "Σ", " ", "A", "Q", "U", "I", " ", "E", "S", "T", "Á">>,
     <<"E", "S", "T", "O", "U", " ", "À", " ", "D", "I", "S", "P", "O", "S", "I", "Ç", "Ã", "O">>,
     <<"v", "o", "u", " ", "p", "r", "o", "c", "u", "r", "a", "r">>}

MediaInputs ==
    [text : Texts, audio : 0..MaxAudio, docs : BOOLEAN, history : BOOLEAN]

\* what _transcribe_audio_file returns: the transcript, a bracketed error
\* text (lines 446-486), or an empty transcript
TranscriptionOutcomes == {"transcript", "error_text", "empty"}

\* items of a context, in place of the text they stand for
Item(kind, n, body) == [kind |-> kind, n |-> n, body |-> body]

\* lines 117-120: the entry of audio file n
transcription_entry(n, outcome) ==
    IF outcome # "empty" THEN Item("audio", n, outcome)
    ELSE Item("audio_error", n, "none")

\* lines 121-125: text, then the entries
with_transcriptions(text, entries) ==
    IF entries = <<>> THEN IF text = <<>> THEN <<>> ELSE <<Item("text", 0, "text")>>
    ELSE IF text # <<>> THEN <<Item("text", 0, "text")>> \o entries
    ELSE entries

\* line 144: `not context_input.strip()`: the context is empty, or it is the
\* text alone and the text is white space (an entry of a transcription is
\* never white space)
is_blank(context, text) ==
    \/ context = <<>>
    \/ context = <<Item("text", 0, "text")>> /\ strip(text) = <<>>

\* lines 150-151: the history goes before the context, which is introduced
\* as the latest message
with_history(context) == <<Item("history", 0, "history"), Item("latest", 0, "marker")>> \o context

InitMedia ==
    /\ m_pc = "idle"
    /\ m_in = [text |-> <<>>, audio |-> 0, docs |-> FALSE, history |-> FALSE]
    /\ context_input = <<>>
    /\ transcriptions = <<>>
    /\ doc_result = "None"
    /\ thread_vector_stores = FALSE
    /\ m_says = 0
    /\ m_edits = 0
    /\ m_outcomes = <<>>
    /\ m_failed = {}
    /\ m_cause = "none"
    /\ m_stores0 = FALSE

\* lines 49-87: the call; create_agent is awaited first
MediaCalled(in) ==
    /\ m_pc \in {"idle", "returned", "raised", "gate"}
    /\ m_pc' = "create_agent"
    /\ m_in' = in
    /\ context_input' = <<>>
    /\ transcriptions' = <<>>
    /\ doc_result' = "None"
    /\ m_says' = 0
    /\ m_edits' = 0
    /\ m_outcomes' = <<>>
    /\ m_failed' = {}
    /\ m_cause' = "none"
    /\ m_stores0' = thread_vector_stores
    /\ UNCHANGED <<thread_vector_stores, outsideMedia>>

\* lines 87-100: the agent is created; is_channel_allowed is awaited
AgentCreated ==
    /\ m_pc = "create_agent"
    /\ m_pc' = "channel_check"
    /\ UNCHANGED <<m_in, context_input, transcriptions, doc_result,
                   thread_vector_stores, m_says, m_edits, m_outcomes, m_failed,
                   m_cause, m_stores0, outsideMedia>>

\* line 87 raises: the exception leaves process_message
CreateAgentRaises ==
    /\ m_pc = "create_agent"
    /\ m_pc' = "raised"
    /\ m_cause' = "create_agent"
    /\ UNCHANGED <<m_in, context_input, transcriptions, doc_result,
                   thread_vector_stores, m_says, m_edits, m_outcomes, m_failed,
                   m_stores0, outsideMedia>>

\* the await that follows the context built so far: the first transcription,
\* the status message of the documents, the history fetch, or the semaphore
AfterFilter(in) ==
    IF in.audio > 0 THEN "transcribing"
    ELSE IF in.docs THEN "doc_status"
    ELSE IF in.history THEN "history" ELSE "gate"

AfterAudio(in) ==
    IF in.docs THEN "doc_status" ELSE IF in.history THEN "history" ELSE "gate"

\* lines 100-111: a refused channel returns; so does a text with an echo
\* phrase; otherwise context_input starts as the text
ChannelChecked(allowed) ==
    /\ m_pc = "channel_check"
    /\ IF ~allowed \/ is_echo(m_in.text)
       THEN /\ m_pc' = "returned"
            /\ m_cause' = IF allowed THEN "echo" ELSE "channel"
            /\ UNCHANGED context_input
       ELSE /\ m_pc' = AfterFilter(m_in)
            /\ context_input' = with_transcriptions(m_in.text, <<>>)
            /\ UNCHANGED m_cause
    /\ UNCHANGED <<m_in, transcriptions, doc_result, thread_vector_stores, m_says,
                   m_edits, m_outcomes, m_failed, m_stores0, outsideMedia>>

\* lines 114-125: _transcribe_audio_file returned for the next audio file;
\* after the last one the entries are joined to the text
Transcribed(outcome) ==
    /\ m_pc = "transcribing"
    /\ LET n == Len(transcriptions) + 1
           entries == Append(transcriptions, transcription_entry(n, outcome))
       IN /\ transcriptions' = entries
          /\ m_outcomes' = Append(m_outcomes, outcome)
          /\ m_failed' = IF outcome = "transcript" THEN m_failed
                         ELSE m_failed \cup {"audio"}
          /\ IF n = m_in.audio
             THEN /\ context_input' = with_transcriptions(m_in.text, entries)
                  /\ m_pc' = AfterAudio(m_in)
             ELSE UNCHANGED <<context_input, m_pc>>
    /\ UNCHANGED <<m_in, doc_result, thread_vector_stores, m_says, m_edits, m_cause,
                   m_stores0, outsideMedia>>

\* lines 129-145: _process_document_files returned `result`. A str has no
\* get: line 131 raises. A dict with a summary reaches line 140, which reads
\* self.current_vector_store_id, an attribute nothing sets: it raises. With
\* None the context, when empty or white space, becomes the text on failed
\* documents
DocsDone(result) ==
    /\ doc_result' = result
    /\ IF result = "None"
       THEN /\ context_input' = IF is_blank(context_input, m_in.text)
                                THEN <<Item("docs_failed", 0, "text")>>
                                ELSE context_input
            /\ m_pc' = IF m_in.history THEN "history" ELSE "gate"
            /\ UNCHANGED m_cause
       ELSE /\ m_pc' = "raised"
            /\ m_cause' = "attachments"
            /\ UNCHANGED context_input

\* lines 327-335: "Processando documentos..." is posted; the upload starts
DocStatusPosted ==
    /\ m_pc = "doc_status"
    /\ m_pc' = "uploading"
    /\ m_says' = m_says + 1
    /\ UNCHANGED <<m_in, context_input, transcriptions, doc_result,
                   thread_vector_stores, m_edits, m_outcomes, m_failed, m_cause,
                   m_stores0, outsideMedia>>

\* lines 331 and 396-407: the say raised; with no status message to edit
\* _process_document_files returns None
DocStatusRaises ==
    /\ m_pc = "doc_status"
    /\ m_says' = m_says + 1
    /\ m_failed' = m_failed \cup {"status"}
    /\ DocsDone("None")
    /\ UNCHANGED <<m_in, transcriptions, thread_vector_stores, m_edits, m_outcomes,
                   m_stores0, outsideMedia>>

\* lines 337-350 and 386-392: upload_to_openai returned; with files uploaded
\* the vector store of the thread is extended or created, with none the
\* status message is edited to the failure text
Uploaded(any) ==
    /\ m_pc = "uploading"
    /\ m_pc' = IF any THEN "store" ELSE "failed_edit"
    /\ m_failed' = IF any THEN m_failed ELSE m_failed \cup {"upload"}
    /\ UNCHANGED <<m_in, context_input, transcriptions, doc_result,
                   thread_vector_stores, m_says, m_edits, m_outcomes, m_cause,
                   m_stores0, outsideMedia>>

\* lines 337-339 and 396-404: upload_to_openai raised
UploadRaises ==
    /\ m_pc = "uploading"
    /\ m_pc' = "doc_error_edit"
    /\ m_failed' = m_failed \cup {"upload"}
    /\ UNCHANGED <<m_in, context_input, transcriptions, doc_result,
                   thread_vector_stores, m_says, m_edits, m_outcomes, m_cause,
                   m_stores0, outsideMedia>>

\* lines 348-375: the vector store call returned an id (ok) or None (both
\* calls catch their own errors). With an id the key of the thread is cached
\* and self._create_temporary_agent_with_vector_store is called, a method
\* MessageProcessor does not define: the AttributeError is caught at 396.
\* With None the upload summary is put into the status message
StoreReturns(ok) ==
    /\ m_pc = "store"
    /\ m_pc' = IF ok THEN "doc_error_edit" ELSE "summary_edit"
    /\ thread_vector_stores' = (thread_vector_stores \/ ok)
    /\ m_failed' = IF ok THEN m_failed ELSE m_failed \cup {"store"}
    /\ UNCHANGED <<m_in, context_input, transcriptions, doc_result, m_says, m_edits,
                   m_outcomes, m_cause, m_stores0, outsideMedia>>

\* lines 375-385: the summary is in the status message; with no context
\* message collected, _process_document_files returns a str
SummaryEdited ==
    /\ m_pc = "summary_edit"
    /\ m_edits' = m_edits + 1
    /\ DocsDone("str")
    /\ UNCHANGED <<m_in, transcriptions, thread_vector_stores, m_says, m_outcomes,
                   m_failed, m_stores0, outsideMedia>>

\* lines 386-394: the failure text is in the status message; None is returned
FailedEdited ==
    /\ m_pc = "failed_edit"
    /\ m_edits' = m_edits + 1
    /\ DocsDone("None")
    /\ UNCHANGED <<m_in, transcriptions, thread_vector_stores, m_says, m_outcomes,
                   m_failed, m_stores0, outsideMedia>>

\* lines 377 and 388: the edit raised; the handler at 396 takes over
DocEditRaises ==
    /\ m_pc \in {"summary_edit", "failed_edit"}
    /\ m_pc' = "doc_error_edit"
    /\ m_edits' = m_edits + 1
    /\ UNCHANGED <<m_in, context_input, transcriptions, doc_result,
                   thread_vector_stores, m_says, m_outcomes, m_failed, m_cause,
                   m_stores0, outsideMedia>>

\* lines 396-407: the status message is edited to the internal-error text
\* (an exception of that edit is swallowed); None is returned
DocErrorEdited ==
    /\ m_pc = "doc_error_edit"
    /\ m_edits' = m_edits + 1
    /\ DocsDone("None")
    /\ UNCHANGED <<m_in, transcriptions, thread_vector_stores, m_says, m_outcomes,
                   m_failed, m_stores0, outsideMedia>>

\* lines 147-153: fetch_thread_history returned; a history found goes before
\* the context
HistoryFetched(found) ==
    /\ m_pc = "history"
    /\ m_pc' = "gate"
    /\ context_input' = IF found THEN with_history(context_input) ELSE context_input
    /\ UNCHANGED <<m_in, transcriptions, doc_result, thread_vector_stores, m_says,
                   m_edits, m_outcomes, m_failed, m_cause, m_stores0, outsideMedia>>

\* line 148 raises: the exception leaves process_message
HistoryRaises ==
    /\ m_pc = "history"
    /\ m_pc' = "raised"
    /\ m_cause' = "history"
    /\ UNCHANGED <<m_in, context_input, transcriptions, doc_result,
                   thread_vector_stores, m_says, m_edits, m_outcomes, m_failed,
                   m_stores0, outsideMedia>>

NextMedia ==
    \/ \E in \in MediaInputs : MediaCalled(in)
    \/ AgentCreated
    \/ CreateAgentRaises
    \/ \E allowed \in BOOLEAN : ChannelChecked(allowed)
    \/ \E outcome \in TranscriptionOutcomes : Transcribed(outcome)
    \/ DocStatusPosted
    \/ DocStatusRaises
    \/ \E any \in BOOLEAN : Uploaded(any)
    \/ UploadRaises
    \/ \E ok \in BOOLEAN : StoreReturns(ok)
    \/ SummaryEdited
    \/ FailedEdited
    \/ DocEditRaises
    \/ DocErrorEdited
    \/ \E found \in BOOLEAN : HistoryFetched(found)
    \/ HistoryRaises

(***************************************************************************)
(* MessageProcessor._split_long_message, server/message_processor.py       *)
(***************************************************************************)
\* str.split(sep): the pieces between the occurrences of sep, found from the
\* left
RECURSIVE split(_, _)
split(s, sep) ==
    LET hits == {i \in 1..(Len(s) - Len(sep) + 1) : SubSeq(s, i, i + Len(sep) - 1) = sep}
    IN IF hits = {} THEN <<s>>
       ELSE LET i == CHOOSE h \in hits : \A k \in hits : h <= k
            IN <<SubSeq(s, 1, i - 1)>> \o split(SubSeq(s, i + Len(sep), Len(s)), sep)

ParagraphBreak == <<"\n", "\n">>
SentenceBreak == <<".", " ">>

\* lines 674-677: pieces of max_length characters are cut off the sentence
\* while it is longer; the rest becomes current_part
RECURSIVE hard_split(_, _, _)
hard_split(parts, sentence, max_length) ==
    IF Len(sentence) > max_length
    THEN hard_split(Append(parts, SubSeq(sentence, 1, max_length)),
                    SubSeq(sentence, max_length + 1, Len(sentence)), max_length)
    ELSE [parts |-> parts, current_part |-> sentence]

\* lines 669-679: one turn of the loop over the sentences
take_sentence(st, sentence, max_length) ==
    IF Len(st.current_part) + Len(sentence) + 2 > max_length
    THEN IF st.current_part # <<>>
         THEN [parts |-> Append(st.parts, strip(st.current_part)),
               current_part |-> sentence]
         ELSE hard_split(st.parts, sentence, max_length)
    ELSE [parts |-> st.parts, current_part |-> st.current_part \o sentence \o SentenceBreak]

\* lines 667-679: the loop over the sentences of a paragraph
RECURSIVE over_sentences(_, _, _)
over_sentences(st, sentences, max_length) ==
    IF sentences = <<>> THEN st
    ELSE over_sentences(take_sentence(st, Head(sentences), max_length),
                        Tail(sentences), max_length)

\* lines 662-681: one turn of the loop over the paragraphs
take_paragraph(st, paragraph, max_length) ==
    IF Len(st.current_part) + Len(paragraph) + 2 > max_length
    THEN IF st.current_part # <<>>
         THEN [parts |-> Append(st.parts, strip(st.current_part)),
               current_part |-> paragraph]
         ELSE over_sentences(st, split(paragraph, SentenceBreak), max_length)
    ELSE [parts |-> st.parts, current_part |-> st.current_part \o paragraph \o ParagraphBreak]

\* lines 661-681: the loop over the paragraphs
RECURSIVE over_paragraphs(_, _, _)
over_paragraphs(st, paragraphs, max_length) ==
    IF paragraphs = <<>> THEN st
    ELSE over_paragraphs(take_paragraph(st, Head(paragraphs), max_length),
                         Tail(paragraphs), max_length)

\* lines 653-686
split_long_message(message, max_length) ==
    IF Len(message) <= max_length THEN <<message>>
    ELSE LET st == over_paragraphs([parts |-> <<>>, current_part |-> <<>>],
                                   split(message, ParagraphBreak), max_length)
         IN IF strip(st.current_part) # <<>>
            THEN Append(st.parts, strip(st.current_part))
            ELSE st.parts

\* what the messages tried are made of
Pieces == {<<"a">>, <<"b">>, <<".">>, <<" ">>, SentenceBreak, ParagraphBreak}

SplitMessages ==
    {Concat(ps) : ps \in UNION {[1..n -> Pieces] : n \in 0..MaxPieces}}

MaxLengths == 1..MaxLength

InitSplit ==
    /\ sp_pc = "idle"
    /\ sp_message = <<>>
    /\ sp_max_length = MaxLength
    /\ sp_parts = <<>>

\* lines 638-686: the call and its return
SplitCalled(message, max_length) ==
    /\ sp_pc = "idle"
    /\ sp_pc' = "done"
    /\ sp_message' = message
    /\ sp_max_length' = max_length
    /\ sp_parts' = split_long_message(message, max_length)
    /\ UNCHANGED outsideSplit

NextSplit ==
    /\ sp_pc = "idle"
    /\ \E message \in SplitMessages, max_length \in MaxLengths :
           SplitCalled(message, max_length)

(***************************************************************************)
(* The token accounting of process_message (message_processor.py 197-222)  *)
(* for one thread.                                                         *)
(***************************************************************************)
\* what the agent's reply carries under "token_usage": "zero" is the dict of
\* agent/processor.py, whose three returns (130, 190, 209) all report
\* {"input": 0, "output": 0, "total": 0}; "absent" is a reply without the
\* keys, for which lines 198-199 fall back on count_tokens; "reported" is the
\* reply of an integration tier that reports counts of its own (one token
\* in, one out, as in TierResults)
Usages == {"zero", "absent", "reported"}

\* lines 197-200: token_info.get("input", count_tokens(context_input)) +
\* token_info.get("output", count_tokens(text_resp)); the default of get is
\* taken only when the key is missing
total_tokens(usage, input_count, output_count) ==
    (CASE usage = "zero" -> 0 [] usage = "reported" -> 1 [] OTHER -> input_count) +
    (CASE usage = "zero" -> 0 [] usage = "reported" -> 1 [] OTHER -> output_count)

\* ContextManager.check_context_limit: the new count joins the thread's
\* total, and the warning is non-empty once the total meets the budget
check_context_limit(total, new_token_count) ==
    LET sum == total + new_token_count
    IN [total |-> sum,
        is_at_limit |-> sum >= TokenBudget,
        memory_warning |-> IF sum >= TokenBudget THEN "warning" ELSE ""]

InitTokens ==
    /\ thread_tokens = 0
    /\ tk_log = <<>>

\* lines 197-218: one message of the thread is accounted for and the
\* placeholder's edit to its response, with the warning appended, is awaited;
\* input_count and output_count are what count_tokens finds in context_input
\* and in the response text; the log keeps what the message consumed, the
\* counts a tier reported or else what count_tokens finds
TokensAccounted(usage, input_count, output_count) ==
    LET new_token_count == total_tokens(usage, input_count, output_count)
        checked == check_context_limit(thread_tokens, new_token_count)
    IN /\ Len(tk_log) < MaxMessages
       /\ thread_tokens' = checked.total
       /\ tk_log' = Append(tk_log, [consumed |-> IF usage = "reported" THEN 2
                                                 ELSE input_count + output_count,
                                    total_tokens |-> new_token_count,
                                    memory_warning |-> checked.memory_warning,
                                    sent |-> "updating"])
       /\ UNCHANGED outsideTokens

\* lines 218-224: the chat_update of message n returns, or it raises and the
\* say of the same text is awaited
UpdateEnds(n, ok) ==
    /\ n \in 1..Len(tk_log)
    /\ tk_log[n].sent = "updating"
    /\ tk_log' = [tk_log EXCEPT ![n].sent = IF ok THEN "edit" ELSE "posting"]
    /\ UNCHANGED <<thread_tokens, outsideTokens>>

\* lines 224 and 235-274: the fallback say of message n returns, or it raises
\* too: the except branch takes over and the user gets an error text, the
\* tokens staying accounted
FallbackSayEnds(n, ok) ==
    /\ n \in 1..Len(tk_log)
    /\ tk_log[n].sent = "posting"
    /\ tk_log' = [tk_log EXCEPT ![n].sent = IF ok THEN "post" ELSE "never"]
    /\ UNCHANGED <<thread_tokens, outsideTokens>>

NextTokens ==
    \/ \E usage \in Usages, input_count \in 1..MaxTokens,
          output_count \in 1..MaxTokens :
             TokensAccounted(usage, input_count, output_count)
    \/ \E n \in 1..MaxMessages, ok \in BOOLEAN : UpdateEnds(n, ok)
    \/ \E n \in 1..MaxMessages, ok \in BOOLEAN : FallbackSayEnds(n, ok)

(***************************************************************************)
(* SlackSocketModeServer.start_async and stop_async,                       *)
(* server/slack_server.py 146-227                                          *)
(***************************************************************************)
\* handler_task runs socket_mode_handler.start_async(), the waiter runs
\* self._shutdown_event.wait()
ServerTasks == {"handler_task", "shutdown_wait"}

NotCreated == [state |-> "none", cancel |-> FALSE, awaited |-> FALSE]

Created == [state |-> "pending", cancel |-> FALSE, awaited |-> FALSE]

IsDone(task) == task.state \in {"returned", "raised", "cancelled"}

\* line 183 with the loop of 189-194 left without a task to clean up
pending_none(tasks) == {}

\* line 183: the set `pending` asyncio.wait returns, the tasks not done when
\* start_async resumes
pending(tasks) == {t \in ServerTasks : tasks[t].state = "pending"}

\* lines 189-190: task.cancel() for every task of `pending`
Cancel(tasks, ts) == [t \in ServerTasks |->
                        IF t \in ts THEN [tasks[t] EXCEPT !.cancel = TRUE] ELSE tasks[t]]

\* lines 196-202: with handler_task in done its result is awaited, which
\* re-raises the exception it ended with; the tasks of `pending` have had
\* cancel() called, the tasks of `done` have not
AfterCleanup(tasks) ==
    IF ~tasks["handler_task"].cancel /\ tasks["handler_task"].state = "raised"
    THEN "raised" ELSE "returned"

InitServer ==
    /\ srv_pc = "idle"
    /\ srv_tasks = [t \in ServerTasks |-> NotCreated]
    /\ _shutdown_event = FALSE
    /\ stop_pc = "idle"

\* self.socket_mode_handler is made (line 100): _initialize_slack_app has
\* come past it, whether or not it then raised (lines 110-113)
socket_mode_handler == srv_pc \notin {"idle", "failed"}

\* _initialize_slack_app has run to its end: the socket handler is made and
\* the signal handlers are installed (lines 100-113, called at 163-164)
Initialized == srv_pc \notin {"idle", "failed", "failed_made"}

\* lines 139-144: SIGINT or SIGTERM arrives and signal_handler sets the event
signal_handler ==
    /\ Initialized
    /\ ~_shutdown_event
    /\ _shutdown_event' = TRUE
    /\ UNCHANGED <<srv_pc, srv_tasks, stop_pc, outsideServer>>

\* lines 208-220: stop_async sets the event and, when the socket handler is
\* made, awaits its close_async
StopCalled ==
    /\ stop_pc = "idle"
    /\ _shutdown_event' = TRUE
    /\ stop_pc' = IF socket_mode_handler THEN "closing" ELSE "returned"
    /\ UNCHANGED <<srv_pc, srv_tasks, outsideServer>>

\* lines 219-226: close_async returns, or raises and stop_async raises
CloseEnds(ok) ==
    /\ stop_pc = "closing"
    /\ stop_pc' = IF ok THEN "returned" ELSE "raised"
    /\ UNCHANGED <<srv_pc, srv_tasks, _shutdown_event, outsideServer>>

\* lines 158-164 and 204-206: the environment is not valid or the app cannot
\* be initialized: the exception is logged and raised again. The failure
\* comes before the socket handler is made (the validation, the client or
\* the app raise, lines 160, 85-93) or after it (the event handlers or
\* signal.signal raise, lines 110-113 and 143-144)
StartFails(made) ==
    /\ srv_pc = "idle"
    /\ srv_pc' = IF made THEN "failed_made" ELSE "failed"
    /\ UNCHANGED <<srv_tasks, _shutdown_event, stop_pc, outsideServer>>

\* lines 168-186: both tasks are created and start_async waits for the
\* first of them to complete
StartWaits ==
    /\ srv_pc \in {"idle", "sleep"}
    /\ srv_pc' = "waiting"
    /\ srv_tasks' = [t \in ServerTasks |-> Created]
    /\ UNCHANGED <<_shutdown_event, stop_pc, outsideServer>>

\* lines 170-178: the creation of the handler task raises TypeError: with the
\* known encoding text start_async sleeps a second and creates it again,
\* otherwise the error is raised; a TypeError of the second creation (176)
\* is raised as well
CreateRaisesTypeError(known) ==
    /\ srv_pc \in {"idle", "sleep"}
    /\ srv_pc' = IF known /\ srv_pc = "idle" THEN "sleep" ELSE "raised"
    /\ UNCHANGED <<srv_tasks, _shutdown_event, stop_pc, outsideServer>>

\* the shutdown waiter: Event.wait returns once the event is set
WaiterReturns ==
    /\ srv_tasks["shutdown_wait"].state = "pending"
    /\ ~srv_tasks["shutdown_wait"].cancel
    /\ _shutdown_event
    /\ srv_tasks' = [srv_tasks EXCEPT !["shutdown_wait"].state = "returned"]
    /\ UNCHANGED <<srv_pc, _shutdown_event, stop_pc, outsideServer>>

\* the socket handler's start_async ends by itself: it returns or raises
\* (the connection could not be made, the session was closed)
HandlerEnds(how) ==
    /\ srv_tasks["handler_task"].state = "pending"
    /\ ~srv_tasks["handler_task"].cancel
    /\ srv_tasks' = [srv_tasks EXCEPT !["handler_task"].state = how]
    /\ UNCHANGED <<srv_pc, _shutdown_event, stop_pc, outsideServer>>

\* lines 183-202: asyncio.wait returns with a task done; cancel() is called
\* on the first task of `pending` and start_async awaits it; with nothing
\* pending the code runs on to the check of handler_task
WaitReturns ==
    /\ srv_pc = "waiting"
    /\ \E t \in ServerTasks : IsDone(srv_tasks[t])
    /\ IF pending(srv_tasks) = {}
       THEN /\ srv_pc' = AfterCleanup(srv_tasks)
            /\ UNCHANGED srv_tasks
       ELSE /\ srv_pc' = "cleanup"
            /\ srv_tasks' = Cancel(srv_tasks, pending(srv_tasks))
    /\ UNCHANGED <<_shutdown_event, stop_pc, outsideServer>>

\* a task cancel() was called on ends: cancelled, or (the handler's clean-up)
\* with another exception, or returning after it caught the cancellation;
\* Event.wait does not catch it
CancelledTaskEnds(t, how) ==
    /\ srv_tasks[t].state = "pending"
    /\ srv_tasks[t].cancel
    /\ t = "shutdown_wait" => how = "cancelled"
    /\ srv_tasks' = [srv_tasks EXCEPT ![t].state = how]
    /\ UNCHANGED <<srv_pc, _shutdown_event, stop_pc, outsideServer>>

\* lines 191-202: `await task` ends: CancelledError is passed over, a return
\* as well, another exception leaves the loop and is raised by line 206;
\* after the loop comes the check of handler_task
AwaitEnds(t) ==
    /\ srv_pc = "cleanup"
    /\ srv_tasks[t].cancel /\ ~srv_tasks[t].awaited
    /\ IsDone(srv_tasks[t])
    /\ srv_tasks' = [srv_tasks EXCEPT ![t].awaited = TRUE]
    /\ srv_pc' = IF srv_tasks[t].state = "raised" THEN "raised"
                 ELSE AfterCleanup(srv_tasks)
    /\ UNCHANGED <<_shutdown_event, stop_pc, outsideServer>>

NextServer ==
    \/ signal_handler
    \/ StopCalled
    \/ \E ok \in BOOLEAN : CloseEnds(ok)
    \/ \E made \in BOOLEAN : StartFails(made)
    \/ StartWaits
    \/ \E known \in BOOLEAN : CreateRaisesTypeError(known)
    \/ WaiterReturns
    \/ \E how \in {"returned", "raised"} : HandlerEnds(how)
    \/ WaitReturns
    \/ \E t \in ServerTasks, how \in {"cancelled", "raised", "returned"} :
           CancelledTaskEnds(t, how)
    \/ \E t \in ServerTasks : AwaitEnds(t)

(***************************************************************************)
(* _handle_think_command and handle_think_selection,                       *)
(* server/event_handlers.py 191-325                                        *)
(***************************************************************************)
\* a conversation is a user in a thread; the prompt and the thread history
\* of its +think command are written as the conversation itself
Conversations == 1..MaxConversations

\* self._pending_think_message and self._pending_think_history: whose
\* command they hold, 0 for None
_pending_think_message == pending_think.message

\* where each conversation stands with its +think command
k_pc == pending_think.pc

\* history: whose prompt and history the analysis of each selection ran on
k_used == pending_think.used

InitPending ==
    pending_think = [message |-> 0,
                     pc |-> [c \in Conversations |-> "idle"],
                     used |-> [c \in Conversations |-> 0]]

\* lines 267-275: +think with no text after it is answered and dropped;
\* otherwise the thread history is awaited
ThinkCommand(c, has_text) ==
    /\ k_pc[c] = "idle"
    /\ pending_think' =
          [pending_think EXCEPT !.pc[c] = IF has_text THEN "history" ELSE "no_text"]
    /\ UNCHANGED outsidePending

\* lines 275-283: the history is back (an empty list when the fetch raised);
\* message and history are stored in the handler object and the say of the
\* selection block is awaited
HistoryReturned(c) ==
    /\ k_pc[c] = "history"
    /\ pending_think' = [pending_think EXCEPT !.message = c, !.pc[c] = "posting"]
    /\ UNCHANGED outsidePending

\* lines 283-326: the say of the selection block returns and the user has
\* the selection to pick from, or it raises and the except clause posts the
\* error text; what was stored stays stored either way
SelectionPosted(c, say_ok) ==
    /\ k_pc[c] = "posting"
    /\ pending_think' =
          [pending_think EXCEPT !.pc[c] = IF say_ok THEN "asked" ELSE "say_failed"]
    /\ UNCHANGED outsidePending

\* lines 195-204: the user of c picks an option: ack and is_channel_allowed
\* are awaited
SelectionMade(c) ==
    /\ k_pc[c] = "asked"
    /\ pending_think' = [pending_think EXCEPT !.pc[c] = "checking"]
    /\ UNCHANGED outsidePending

\* lines 204-235: is_channel_allowed is back and, when it allows, the stored
\* message and history are read; without a stored message the selection is
\* edited to "Sessão expirada", otherwise the status is shown and
\* process_think_message is awaited on what was read
SelectionChecked(c, allowed) ==
    /\ k_pc[c] = "checking"
    /\ pending_think' =
          IF ~allowed
          THEN [pending_think EXCEPT !.pc[c] = "refused"]
          ELSE IF _pending_think_message = 0
          THEN [pending_think EXCEPT !.pc[c] = "expired"]
          ELSE [pending_think EXCEPT !.pc[c] = "analysis",
                                     !.used[c] = _pending_think_message]
    /\ UNCHANGED outsidePending

\* lines 237-259: process_think_message returned and the stored context is
\* cleared, or an await of 222-247 raised and the except clause edits the
\* selection to its error text, the stored context left as it is
AnalysisEnded(c, ok) ==
    /\ k_pc[c] = "analysis"
    /\ pending_think' =
          [pending_think EXCEPT !.pc[c] = IF ok THEN "done" ELSE "failed",
                                !.message = IF ok THEN 0 ELSE @]
    /\ UNCHANGED outsidePending

NextPending ==
    \/ \E c \in Conversations, has_text \in BOOLEAN : ThinkCommand(c, has_text)
    \/ \E c \in Conversations : HistoryReturned(c)
    \/ \E c \in Conversations, say_ok \in BOOLEAN : SelectionPosted(c, say_ok)
    \/ \E c \in Conversations : SelectionMade(c)
    \/ \E c \in Conversations, allowed \in BOOLEAN : SelectionChecked(c, allowed)
    \/ \E c \in Conversations, ok \in BOOLEAN : AnalysisEnded(c, ok)

(***************************************************************************)
(* _process_document_files run by several messages of one thread,          *)
(* server/message_processor.py 327-407                                     *)
(***************************************************************************)
\* the store that create_vector_store_with_files makes for message i is
\* written as i
DocMessages == 1..MaxDocMessages

\* self.thread_vector_stores.get(thread_key): the store id, 0 for no entry
vs_entry == doc_stores.entry

\* where each document message of the thread stands
vs_pc == doc_stores.pc

\* history: the vector store each message put its files in, 0 for none
vs_used == doc_stores.used

InitStores ==
    doc_stores = [entry |-> 0,
                  pc |-> [i \in DocMessages |-> "idle"],
                  used |-> [i \in DocMessages |-> 0]]

\* lines 331-359: the status is posted and upload_to_openai is awaited; with
\* nothing uploaded the status is edited to the failure text. Otherwise the
\* thread's entry is read and, with no await in between, either
\* add_files_to_existing_vector_store or create_vector_store_with_files is
\* called
DocumentsUploaded(i, uploaded) ==
    /\ vs_pc[i] = "idle"
    /\ doc_stores' =
          [doc_stores EXCEPT !.pc[i] = IF ~uploaded THEN "not_uploaded"
                                       ELSE IF vs_entry # 0 THEN "adding"
                                       ELSE "creating",
                             !.used[i] = IF uploaded THEN vs_entry ELSE 0]
    /\ UNCHANGED outsideStores

\* lines 353-356: add_files_to_existing_vector_store returns the id it was
\* given, or None when the API raised
FilesAdded(i, ok) ==
    /\ vs_pc[i] = "adding"
    /\ doc_stores' =
          [doc_stores EXCEPT !.pc[i] = IF ok THEN "done" ELSE "no_store",
                             !.used[i] = IF ok THEN @ ELSE 0]
    /\ UNCHANGED outsideStores

\* lines 358-363: create_vector_store_with_files returns the id of a new
\* store, which becomes the thread's entry, or None when the API raised
StoreCreated(i, ok) ==
    /\ vs_pc[i] = "creating"
    /\ doc_stores' =
          [doc_stores EXCEPT !.pc[i] = IF ok THEN "done" ELSE "no_store",
                             !.entry = IF ok THEN i ELSE @,
                             !.used[i] = IF ok THEN i ELSE 0]
    /\ UNCHANGED outsideStores

NextStores ==
    \/ \E i \in DocMessages, uploaded \in BOOLEAN : DocumentsUploaded(i, uploaded)
    \/ \E i \in DocMessages, ok \in BOOLEAN : FilesAdded(i, ok)
    \/ \E i \in DocMessages, ok \in BOOLEAN : StoreCreated(i, ok)

(***************************************************************************)
(* The input of a run: agent/processor.py 85-108 builds it,                *)
(* agent/guardrails.py 92-110 turns it into the text to classify           *)
(***************************************************************************)
MessageChars == {"a", "b", " "}

RECURSIVE TextsUpTo(_)
TextsUpTo(n) ==
    IF n = 0 THEN {<<>>}
    ELSE LET shorter == TextsUpTo(n - 1)
         IN  shorter \cup {Append(t, ch) : t \in shorter, ch \in MessageChars}

UserMessages == TextsUpTo(MaxMessageLen)

\* processor.py 96-102: the content of the one user item, an input_text entry
\* followed by one input_image entry per url
content_items(message, n_images) ==
    <<[type |-> "input_text", text |-> message]>>
        \o [k \in 1..n_images |-> [type |-> "input_image", text |-> <<>>]]

\* processor.py 89-108: a list of one user item when there are images, the
\* message itself otherwise
agent_input(message, n_images) ==
    IF n_images > 0
    THEN [is_list |-> TRUE, str |-> <<>>,
          items |-> <<[kind |-> "dict", role |-> "user", text |-> <<>>,
                       content |-> content_items(message, n_images)]>>]
    ELSE [is_list |-> FALSE, str |-> message, items |-> <<>>]

\* guardrails.py 95-100: an item adds its text and a blank when it has a
\* text attribute or is a string; a dict has no attribute `text` and is no
\* string
RECURSIVE text_content(_)
text_content(items) ==
    IF items = <<>> THEN <<>>
    ELSE LET item == Head(items)
         IN  (IF item.kind \in {"object_with_text", "str"}
              THEN item.text \o <<" ">> ELSE <<>>) \o text_content(Tail(items))

\* guardrails.py 92-103
input_text(input) ==
    IF input.is_list THEN strip(text_content(input.items)) ELSE input.str

NoAgentInput == [is_list |-> FALSE, str |-> <<>>, items |-> <<>>]

InitExtract ==
    g_extract = [pc |-> "idle", message |-> <<>>, input |-> NoAgentInput,
                 input_text |-> <<>>, submitted |-> <<>>]

\* processor.py 85-108: the input of the run is prepared
InputPrepared(message, n_images) ==
    /\ g_extract.pc = "idle"
    /\ g_extract' = [pc |-> "prepared", message |-> message,
                     input |-> agent_input(message, n_images),
                     input_text |-> <<>>, submitted |-> <<>>]
    /\ UNCHANGED outsideExtract

\* guardrails.py 92-103: the guardrail is run on that input and extracts
\* the text
TextExtracted ==
    /\ g_extract.pc = "prepared"
    /\ g_extract' = [g_extract EXCEPT !.pc = "extracted",
                                      !.input_text = input_text(g_extract.input)]
    /\ UNCHANGED outsideExtract

\* guardrails.py 106-110: the classifier is run on the instruction (written
\* ":") followed by the text
ClassifierPrompted ==
    /\ g_extract.pc = "extracted"
    /\ g_extract' = [g_extract EXCEPT !.pc = "submitted",
                                      !.submitted = <<":">> \o g_extract.input_text]
    /\ UNCHANGED outsideExtract

NextExtract ==
    \/ \E message \in UserMessages, n_images \in 0..MaxImages :
          InputPrepared(message, n_images)
    \/ TextExtracted
    \/ ClassifierPrompted

(***************************************************************************)
(* MCPCacheManager, tools/mcp/cache_manager.py 12-73, for one server name  *)
(***************************************************************************)
\* lines 14-17: nothing is registered; now is time.time(); pending holds the
\* calls of invalidate_cache under way, either scheduled by asyncio.gather
\* and not yet started or suspended in server.invalidate_tools_cache(),
\* results the calls that have returned, in the order of their return
InitCache ==
    mcp_cache = [now |-> 0, registered |-> FALSE, ttl |-> 0, last_refresh |-> 0,
                 invalidations |-> 0, pending |-> <<>>, results |-> <<>>]

\* time passes
ClockTicks ==
    /\ mcp_cache.now < MaxClock
    /\ mcp_cache' = [mcp_cache EXCEPT !.now = @ + 1]
    /\ UNCHANGED outsideCache

\* lines 19-30: register_server(server, name, ttl) puts a new stats record
\* under the name; a call suspended in invalidate_cache keeps the record it
\* read at line 52, which is the current one no longer; a call not yet
\* started has read none
register_server ==
    /\ mcp_cache' = [mcp_cache EXCEPT
                        !.registered = TRUE,
                        !.ttl = RegisteredTtl,
                        !.invalidations = 0,
                        !.last_refresh = mcp_cache.now,
                        !.pending = [n \in 1..Len(@) |->
                                        [@[n] EXCEPT !.stale = mcp_cache.pending[n].started]]]
    /\ UNCHANGED outsideCache

\* line 41: time_since_refresh > stats["ttl"]
expired(cache) == cache.now - cache.last_refresh > cache.ttl

\* lines 32-46: the value check_and_refresh_cache returns
check_result(cache) == cache.registered /\ expired(cache)

\* the calls made so far
calls_made(cache) == Len(cache.pending) + Len(cache.results)

\* a call that returns without a suspension and changes nothing
returns_at_once(cache, kind) ==
    [kind |-> kind, at |-> cache.now, ret |-> cache.now,
     registered |-> cache.registered, result |-> FALSE, invalidated |-> FALSE,
     changed |-> FALSE, last_refresh |-> cache.last_refresh]

\* lines 48-57: invalidate_cache up to its suspension: an unregistered name
\* is logged and the call returns; otherwise the stats record is read and
\* the server's invalidate_tools_cache is awaited
enter_invalidate_cache(cache, kind) ==
    IF ~cache.registered
    THEN [cache EXCEPT !.results = Append(@, returns_at_once(cache, kind))]
    ELSE [cache EXCEPT !.pending = Append(@, [kind |-> kind, at |-> cache.now,
                                              started |-> TRUE, stale |-> FALSE])]

\* lines 32-46 and 48-57: check_and_refresh_cache(name): False at once for
\* an unregistered name or a ttl not yet over; otherwise invalidate_cache is
\* awaited, which suspends in the server's invalidate_tools_cache
check_and_refresh_cache ==
    /\ calls_made(mcp_cache) < MaxChecks
    /\ mcp_cache' =
          IF check_result(mcp_cache)
          THEN enter_invalidate_cache(mcp_cache, "check")
          ELSE [mcp_cache EXCEPT !.results = Append(@, returns_at_once(mcp_cache, "check"))]
    /\ UNCHANGED outsideCache

\* lines 48-57: invalidate_cache(name) called by itself
invalidate_cache ==
    /\ calls_made(mcp_cache) < MaxChecks
    /\ mcp_cache' = enter_invalidate_cache(mcp_cache, "invalidate")
    /\ UNCHANGED outsideCache

\* lines 64-73 and 170-171: invalidate_all_caches (refresh_all_mcp_caches
\* calls it) makes one invalidate_cache coroutine per registered name and
\* awaits asyncio.gather of them, which schedules each as a task: none has
\* run a line when the call suspends. With no name registered there is
\* nothing to gather and the call returns
invalidate_all_caches ==
    /\ calls_made(mcp_cache) < MaxChecks
    /\ mcp_cache' =
          IF ~mcp_cache.registered
          THEN [mcp_cache EXCEPT
                   !.results = Append(@, returns_at_once(mcp_cache, "invalidate_all"))]
          ELSE [mcp_cache EXCEPT
                   !.pending = Append(@, [kind |-> "invalidate_all", at |-> mcp_cache.now,
                                          started |-> FALSE, stale |-> FALSE])]
    /\ UNCHANGED outsideCache

\* lines 49-57: the loop runs the n-th call, a task of the gather: the name
\* is registered (no name is ever removed), the stats record now under the
\* name is read and the server's invalidate_tools_cache is awaited
InvalidationStarts(n) ==
    /\ n \in 1..Len(mcp_cache.pending)
    /\ ~mcp_cache.pending[n].started
    /\ mcp_cache' = [mcp_cache EXCEPT !.pending[n].started = TRUE]
    /\ UNCHANGED outsideCache

\* the sequence without its n-th element
Without(seq, n) == SubSeq(seq, 1, n - 1) \o SubSeq(seq, n + 1, Len(seq))

\* lines 57-62 and 43-44: the server's invalidate_tools_cache returns to the
\* n-th suspended call: the stats record the call holds is counted up (the
\* current one unless a registration replaced it) and last_refresh of the
\* name is set to time.time(); or it raises, the exception is logged and
\* neither is done. A check returns True either way
InvalidationReturns(n, raises) ==
    /\ n \in 1..Len(mcp_cache.pending)
    /\ mcp_cache.pending[n].started
    /\ LET call == mcp_cache.pending[n]
           counted == IF raises \/ call.stale THEN mcp_cache.invalidations
                      ELSE mcp_cache.invalidations + 1
           refreshed == IF raises THEN mcp_cache.last_refresh ELSE mcp_cache.now
       IN mcp_cache' =
             [mcp_cache EXCEPT
                 !.invalidations = counted,
                 !.last_refresh = refreshed,
                 !.pending = Without(@, n),
                 !.results =
                     Append(@, [kind |-> call.kind, at |-> call.at,
                                ret |-> mcp_cache.now, registered |-> TRUE,
                                result |-> call.kind = "check",
                                invalidated |-> counted > mcp_cache.invalidations,
                                changed |-> \/ counted # mcp_cache.invalidations
                                            \/ refreshed # mcp_cache.last_refresh,
                                last_refresh |-> refreshed])]
    /\ UNCHANGED outsideCache

NextCache ==
    \/ ClockTicks
    \/ register_server
    \/ check_and_refresh_cache
    \/ invalidate_cache
    \/ invalidate_all_caches
    \/ \E n \in 1..MaxChecks : InvalidationStarts(n)
    \/ \E n \in 1..MaxChecks, raises \in BOOLEAN : InvalidationReturns(n, raises)

(***************************************************************************)
(* Claims on the event handlers (specification Spec)                       *)
(***************************************************************************)

\* C1: while a key is resident in processed_messages at most one delivery
\* carrying it has passed the dedup gate, whichever of the two handlers the
\* deliveries went to and however they interleave (the membership test and
\* the insertion are one step: no suspension point lies between them)
C1_AtMostOneAdmissionWhileResident ==
    watched \in processed_messages => admitted <= 1

\* C1 witness: two deliveries of one key, one to each handler, both past
\* the DM check; the first was admitted and is being processed, the second
\* was turned away at the gate
C1_Witness ==
    \E t, u \in Tasks :
        /\ hpc[t] = "processing" /\ hev[t].type = "message"
        /\ hpc[u] = "dup" /\ hev[u].type = "app_mention"
        /\ message_key(hev[t]) = watched /\ message_key(hev[u]) = watched
        /\ watched \in processed_messages

\* C2 as stated: a key never gets a second outbound response in the life of
\* the process, whatever was delivered in between
C2_Original_AtMostOneResponseEver == responses <= 1

\* C2 amended: a key gets at most one outbound response per residence in
\* processed_messages; a second response needs a prune to have discarded
\* the key in between
C2_OneResponsePerResidence == responses <= evictions + 1

\* C2 witness: the key was answered once, another key was handled in
\* between, the key was delivered again and turned away, never evicted
C2_Witness ==
    \E t \in Tasks :
        /\ hpc[t] = "dup" /\ message_key(hev[t]) = watched
        /\ responses = 1 /\ evictions = 0
        /\ Cardinality(processed_messages) > 1

\* C24: the processor is reached only by a message event of a DM channel or
\* by an app_mention event of a channel that is not a DM, and never by an
\* event the bot authored; in particular a message event of a channel that
\* is not a DM never reaches it.
C24_OnlyDmMessagesAndChannelMentions ==
    \A t \in Tasks :
        hpc[t] = "processing" =>
            /\ hev[t].user # bot_user_id
            /\ \/ hev[t].type = "message" /\ IsIm(hev[t].channel)
               \/ hev[t].type = "app_mention" /\ ~IsIm(hev[t].channel)

\* C25: whichever handler inserts the keys, processed_messages never holds
\* more than the prune threshold plus the key just inserted.
C25_DedupSetBounded == Cardinality(processed_messages) <= PruneThreshold + 1

\* C26: a prune evicts the oldest keys only, so the key the handler has just
\* inserted, the most recent of all, is resident when the handler goes on to
\* process its event.
C26_PruneKeepsInsertedKey ==
    [][\A t \in Tasks :
          (hpc[t] = "dm_check" /\ hpc'[t] = "processing") =>
              message_key(hev[t]) \in processed_messages']_vars

(***************************************************************************)
(* Claims on process_message (specifications SpecPM, FairSpecPM)           *)
(***************************************************************************)
InSection == {i \in Invocations : ppc[i] \in SectionPcs}

\* C3: in every reachable state the invocations inside the semaphore-gated
\* section (placeholder posted or being posted, up to finalization or error
\* report) number at most the semaphore capacity
C3_SectionBoundedByCapacity == Cardinality(InSection) <= max_concurrency

\* C3 witness: the section is full and a further invocation is held back
C3_Witness ==
    /\ Cardinality(InSection) = max_concurrency
    /\ \E i \in Invocations : ppc[i] = "sem_wait"

\* C4: an invocation that finds every slot taken is queued, can leave the
\* queue only into the section (it is never turned away), and under fair
\* scheduling does enter the section
C4_WaiterEventuallyAdmitted ==
    /\ [][\A i \in Invocations :
            ppc[i] = "sem_wait" => ppc'[i] \in {"sem_wait", "placeholder"}]_vars
    /\ \A i \in Invocations : (ppc[i] = "sem_wait") ~> (ppc[i] = "placeholder")

\* C4 witness: an invocation that had to wait is inside the section
C4_Witness == hwaited /\ ppc[pwatch] \in SectionPcs

\* C5 as stated: an invocation whose provider call fails with a timeout has,
\* when it ends, slept 2, 4 and 8 seconds, run the pipeline four times (the
\* first attempt and three retries) and shown the timeout message
C5_ThreeRetriesThenTimeoutMessage ==
    (ppc[pwatch] \in {"done", "raised"} /\ hcause = "timeout")
        => (hsleeps = <<2, 4, 8>> /\ hruns = 4 /\ hmsg = "err_timeout")

\* the watched invocation leaves the final update of its response
LeavesFinalUpdate == ppc[pwatch] = "final_update" /\ ppc'[pwatch] # "final_update"

\* the response is what the user sees, by the edit or by the new message
ResponseDelivered == ppc'[pwatch] = "done" /\ hmsg' \in {"response_edit", "response_post"}

\* C14 as stated: once the agent has returned, the response is delivered,
\* by the edit of the placeholder or by a new message, and is never lost
C14_Original_ResponseNeverLost ==
    [][LeavesFinalUpdate => ResponseDelivered]_vars

\* C14: once the agent has returned, the response is delivered by the edit
\* of the placeholder or, the edit having failed, by a new message holding
\* the same text; it is lost only when that new message cannot be posted
\* either, and then the except branch takes over with nothing shown yet
C14_FallbackPostUnlessItRaises ==
    [][LeavesFinalUpdate =>
          \/ ResponseDelivered
          \/ /\ ppc'[pwatch] \in {"retry_sleep", "report_update"}
             /\ hmsg' = hmsg
             /\ hcause' \in ErrKinds]_vars

\* C14 witness: the edit failed and the response is in a new message
C14_Witness == ppc[pwatch] = "done" /\ hmsg = "response_post"

\* C31: the retry budget is per conversation: whatever the other invocations
\* do, the invocation watched is granted a retry for its transient error and
\* its first backoff is min(2 ** 0, 10).
C31_RetryBudgetPerConversation ==
    /\ hsleeps # <<>> => hsleeps[1] = backoff_time(0)
    /\ (ppc[pwatch] \in {"retry_sleep", "report_update"} /\ should_retry_error(hcause))
          => hsleeps # <<>>

\* no invocation of process_message is under way
Quiescent == \A i \in Invocations : ppc[i] \in {"idle", "returned", "raised", "done"}

\* C27: the step with which an invocation leaves its retry branch, whatever
\* the outcome of the retry, leaves the processor without _retry_count, and
\* in every quiescent state the attribute is absent.
C27_RetryStateCleared ==
    /\ [](Quiescent => _retry_count = 0)
    /\ [][\A i \in Invocations :
            (ppc[i] = "retry_sleep" /\ ppc'[i] # "retry_sleep") => _retry_count' = 0]_vars

\* C27 witness: the invocation watched slept for a retry, left the retry
\* branch and ended, and nothing is under way
C27_Witness ==
    /\ Quiescent /\ hsleeps # <<>> /\ _retry_count = 0
    /\ ppc[pwatch] \in {"done", "raised"}

\* the placeholder is posted and no edit of it has been attempted yet
PlaceholderUntouched(i) == ppc[i] \in {"imagegen", "agent", "retry_sleep"}

\* C37: an invocation that posted the placeholder does not return or raise
\* before it has attempted to edit the placeholder, to the formatted
\* response or to an error text: it leaves only through one of the two
\* edits.
C37_PlaceholderAlwaysEdited ==
    [][\A i \in Invocations :
          PlaceholderUntouched(i) => ppc'[i] \notin {"done", "raised"}]_vars

(***************************************************************************)
(* Claims on the guardrail (specification SpecGuard)                       *)
(***************************************************************************)
\* C6: the guardrail returns tripwire_triggered true exactly when the
\* classifier's verdict has is_inappropriate true and a confidence_score
\* strictly above 0.7
C6_TripwireIffInappropriateAndConfident ==
    g_pc = "returned" =>
        (g_output.tripwire_triggered <=>
            (/\ g_output.output_info.is_inappropriate
             /\ g_output.output_info.confidence_score > TripwireThreshold))

\* C6 witness: the tripwire fired on a verdict just above the threshold
C6_Witness ==
    /\ g_pc = "returned"
    /\ g_output.tripwire_triggered
    /\ g_output.output_info.confidence_score = TripwireThreshold + 1

\* C7 as stated: for an input shorter than 20 characters that holds no
\* blocklisted term the guardrail's verdict has is_inappropriate false and
\* confidence 0.0, whatever the classifier returned
C7_ShortInputIsSafe ==
    (g_pc = "returned" /\ g_input.len < 20 /\ ~g_input.blocklisted)
        => (/\ g_output.output_info.is_inappropriate = FALSE
            /\ g_output.output_info.confidence_score = 0)

(***************************************************************************)
(* Claims on process_message of the agent (specification SpecStream)       *)
(***************************************************************************)
\* the stream ended and process_message returned the streamed result
StreamCompleted ==
    s_pc = "returned" /\ s_result.text.kind \in {"streamed", "final_output", "no_response"}

\* C8 as stated: after a stream with K tool-call-started events the returned
\* tool list has K entries, and the entry of a call reads completed if an
\* output event for that call was supplied and started otherwise
C8_EntryStatusMatchesOutputs ==
    StreamCompleted =>
        /\ Len(s_result.tools) = Cardinality(Started(consumed))
        /\ \A n \in 1..Len(s_result.tools) :
              (s_result.tools[n].type = "tool_call_completed")
                  <=> (n \in Supplied(consumed))

\* the text of the non-empty deltas of a sequence of events
RECURSIVE StreamedText(_)
StreamedText(evs) ==
    IF evs = <<>> THEN <<>>
    ELSE LET ev == evs[Len(evs)]
         IN StreamedText(SubSeq(evs, 1, Len(evs) - 1))
                \o (IF ev.type = "raw" THEN ev.delta ELSE <<>>)

\* the callback calls a sequence of events asks for: <<delta, full text>>
RECURSIVE ExpectedCalls(_)
ExpectedCalls(evs) ==
    IF evs = <<>> THEN <<>>
    ELSE LET ev == evs[Len(evs)]
             before == ExpectedCalls(SubSeq(evs, 1, Len(evs) - 1))
         IN IF ev.type = "raw" /\ ev.delta # <<>>
            THEN Append(before, <<ev.delta, StreamedText(evs)>>)
            ELSE IF IsStart(ev)
            THEN Append(before, <<<<>>, StreamedText(evs)>>)
            ELSE before

\* C9: the callback is called once per non-empty text delta and once, with
\* an empty delta, per started tool call, in the order of the events, each
\* time with the concatenation of the deltas received so far
C9_CallbackFollowsEvents ==
    s_pc \in {"streaming", "callback", "returned"} =>
        [n \in 1..Len(cb_log) |-> <<cb_log[n].delta, cb_log[n].full_text>>]
            = ExpectedCalls(consumed)

\* C9 witness: a delta, a started tool call and a second delta were reported
C9_Witness ==
    /\ Len(cb_log) = 3
    /\ cb_log[1].delta # <<>>
    /\ cb_log[2].delta = <<>>
    /\ cb_log[3].delta # <<>>
    /\ cb_log[3].full_text = cb_log[1].delta \o cb_log[3].delta

\* C10 as stated: when the guardrail tripwire is raised before any event
\* was streamed, by Runner.run_streamed or by result.stream_events() ahead
\* of its first event, process_message returns the fixed apology, no tools
\* and a zero token usage, and the callback is not called
C10_TripBeforeStreaming ==
    (s_pc = "returned" /\ trip_at # "none" /\ consumed = <<>>) =>
        /\ s_result.text.kind = "apology"
        /\ s_result.tools = <<>>
        /\ s_result.token_usage = [input |-> 0, output |-> 0, total |-> 0]
        /\ cb_log = <<>>

\* guardrails.py 123-149: the educational message of a category, the default
\* one for a category outside the five
get_inappropriate_content_response(category) ==
    [kind |-> "educational",
     body |-> IF category \in {"sexual", "violence", "harassment", "personal", "off_topic"}
              THEN <<category>> ELSE <<"default">>]

\* C22 as stated: when the guardrail tripwire blocked the input, the text
\* returned for the user is the educational message of a verdict category
C22_BlockedInputGetsCategoryMessage ==
    (s_pc = "returned" /\ trip_at # "none") =>
        \E category \in Categories :
            s_result.text = get_inappropriate_content_response(category)

\* the event the loop body has just consumed
LastConsumed == consumed'[Len(consumed')]

\* C28: tool_calls is append-only. A started event appends one entry and
\* leaves the others as they were; an output event changes the output and the
\* status of the last entry alone, and nothing when the list is empty; no
\* other event changes the list.
C28_ToolCallsAppendOnly ==
    [][(s_pc = "streaming" /\ consumed' # consumed) =>
          IF IsStart(LastConsumed)
          THEN /\ Len(tool_calls') = Len(tool_calls) + 1
               /\ SubSeq(tool_calls', 1, Len(tool_calls)) = tool_calls
               /\ tool_calls'[Len(tool_calls')].type
                      \in {"tool_call_started", "file_search_call"}
          ELSE IF IsOutput(LastConsumed) /\ tool_calls # <<>>
          THEN /\ Len(tool_calls') = Len(tool_calls)
               /\ \A n \in 1..(Len(tool_calls) - 1) : tool_calls'[n] = tool_calls[n]
               /\ tool_calls'[Len(tool_calls)] =
                      [tool_calls[Len(tool_calls)] EXCEPT
                          !.output = LastConsumed.call, !.type = "tool_call_completed"]
          ELSE tool_calls' = tool_calls]_vars

\* C28 witness: an output arrived while the list was empty, two calls
\* started after it, and the output of the second call completed the last
\* entry while the first still reads started
C28_Witness ==
    /\ s_pc = "streaming" /\ Len(consumed) = 4
    /\ IsOutput(consumed[1]) /\ IsOutput(consumed[4])
    /\ Len(tool_calls) = 2
    /\ tool_calls[1].type # "tool_call_completed"
    /\ tool_calls[2].type = "tool_call_completed"

\* the native path of the call ended with an exception of the runtime or of
\* the callback
NativeRaised ==
    /\ attempts # <<>>
    /\ attempts[Len(attempts)].tier = "native"
    /\ attempts[Len(attempts)].outcome = "raised"

\* C29: an exception raised on the native streaming path never leaves
\* process_message: the call returns a dict whose text is an error text,
\* whose tools are empty and whose token usage is all zero; and whatever
\* process_message returns is a dict with a text.
C29_AlwaysReturnsDict ==
    /\ s_pc \in {"idle", "tier1", "tier2", "native", "streaming", "callback",
                "returned"}
    /\ s_pc = "returned" => s_result.text.kind # "none"
    /\ NativeRaised =>
          /\ s_pc = "returned"
          /\ s_result.text.kind \in {"err_raw", "err_rate_limit", "err_timeout",
                                      "err_connection"}
          /\ s_result.tools = <<>>
          /\ s_result.token_usage = ZeroUsage

\* C29 witness: the stream raised after a tool call had started, and the
\* dict returned holds the error text and no tool
C29_Witness ==
    /\ NativeRaised /\ s_pc = "returned"
    /\ tool_calls # <<>> /\ s_result.tools = <<>>
    /\ s_result.text.kind = "err_raw"

\* the order of the tiers: enhanced multi-turn, single-pass streaming
\* integration, general agent
TierOrder == <<"tier1", "tier2", "native">>

\* C11: with an integration detected the tiers are awaited in the order of
\* TierOrder, a tier only after every earlier one raised; every tier that
\* raised has its own error logged; the dict returned is that of the first
\* tier that did not raise
C11_TiersInOrderFirstSuccessWins ==
    mcp_key # "none" =>
        /\ Len(attempts) <= Len(TierOrder)
        /\ \A n \in 1..Len(attempts) :
              /\ attempts[n].tier = TierOrder[n]
              /\ n < Len(attempts) => attempts[n].outcome = "raised"
              /\ attempts[n].outcome = "raised" =>
                    /\ attempts[n].log # "none"
                    /\ \A o \in 1..Len(attempts) :
                          o # n => attempts[o].log # attempts[n].log
        /\ s_pc = "returned" =>
              LET last == attempts[Len(attempts)]
              IN /\ last.outcome # "running"
                 /\ (s_result.text.kind \in {"tier1", "tier2"})
                        <=> (last.tier \in {"tier1", "tier2"} /\ last.outcome = "returned")
                 /\ last.tier \in {"tier1", "tier2"} /\ last.outcome = "returned"
                        => s_result.text.kind = last.tier

\* C11 witness: both integration tiers raised and the general agent answered
C11_Witness ==
    /\ s_pc = "returned"
    /\ Len(attempts) = 3
    /\ attempts[3].outcome = "returned"
    /\ s_result.text.kind = "streamed"

\* C35: when at least one non-empty text delta was streamed the returned
\* text is the concatenation of the deltas, whatever the final output; the
\* text "No response generated." is returned only when nothing was
\* streamed and there is no final output.
C35_StreamedTextReturned ==
    StreamCompleted
        => /\ full_response # <<>>
                 => s_result.text = [kind |-> "streamed", body |-> full_response]
           /\ s_result.text.kind = "no_response" => full_response = <<>>

(***************************************************************************)
(* Claims on get_mcp_by_keywords (specification SpecDetect)                *)
(***************************************************************************)
\* two characters that differ at most in case
SameLetter(a, b) ==
    \/ a = b
    \/ a \in DOMAIN to_lower /\ to_lower[a] = b
    \/ b \in DOMAIN to_lower /\ to_lower[b] = a

\* keyword occurs in text as a case-insensitive substring
OccursIgnoringCase(keyword, text) ==
    \E at \in 1..(Len(text) - Len(keyword) + 1) :
        \A n \in 1..Len(keyword) : SameLetter(keyword[n], text[at + n - 1])

\* the positions in the priority order of the integrations with a keyword
\* occurring in text
Matching(text) ==
    {n \in 1..Len(PRIORITY_ORDER) :
        \E k \in 1..Len(keywords(PRIORITY_ORDER[n])) :
            OccursIgnoringCase(keywords(PRIORITY_ORDER[n])[k], text)}

ExampleText == <<"p", "r", "e", "c", "i", "s", "o", " ", "v", "e", "r", " ", "m", "i", "n", "h", "a", " ", "a", "g", "e", "n", "d", "a", " ", "n", "o", " ", "c", "a", "l", "e", "n", "d", "a", "r", " ", "h", "o", "j", "e">>

\* C12: detection returns the first integration of the priority order with
\* a keyword occurring case-insensitively in the text, none when no keyword
\* occurs; the example text yields the calendar integration
C12_FirstMatchInPriorityOrder ==
    d_pc = "returned" =>
        /\ Matching(d_message) = {} => d_result = "None"
        /\ Matching(d_message) # {} =>
              \E n \in Matching(d_message) :
                  /\ \A o \in Matching(d_message) : n <= o
                  /\ d_result = PRIORITY_ORDER[n]
        /\ d_message = ExampleText => d_result = "mcpGoogleCalendar"

\* C12 witness: a text with the keywords of two integrations, in capitals,
\* the later one first in the text, was given the earlier integration
C12_Witness ==
    /\ d_pc = "returned"
    /\ Cardinality(Matching(d_message)) = 2
    /\ d_result = "mcpGmail"
    /\ d_message[1] = "C"

(***************************************************************************)
(* Claims on process_think_message (specification SpecThink)               *)
(***************************************************************************)
\* C13 as stated: no message delivered to the user on an error path holds
\* the raw text of the caught exception
C13_NoRawExceptionText ==
    \A n \in 1..Len(t_posts) : t_posts[n].kind # "err_raw"

\* C20: once the guardrail of a stage tripped, no later stage is invoked, no
\* model output is posted, and when the say of the apology returned the
\* messages posted are that one apology
C20_TripAbortsFlow ==
    t_tripped # "none" =>
        /\ t_stages[Len(t_stages)] = t_tripped
        /\ \A n \in 1..Len(t_posts) : t_posts[n].kind # "output"
        /\ Cardinality({n \in 1..Len(t_posts) : t_posts[n].kind = "apology"}) <= 1
        /\ t_pc \notin {"improving", "status_update", "analysing", "posting"}
        /\ (t_pc = "returned" /\ ~t_say_failed) =>
              t_posts = <<[kind |-> "apology", from |-> t_tripped, part |-> 0]>>

\* C20 witness: the analysis stage tripped after an improved prompt, and the
\* apology was posted
C20_Witness ==
    /\ t_pc = "returned"
    /\ t_tripped = "analysis"
    /\ t_stages = <<"improve", "analysis">>
    /\ Len(t_posts) = 1

\* the input of the stage went through the content guardrail: the agent run
\* on it carries one
GuardrailRanOn(stage) == input_guardrails(stage_agent(stage)) # {}

\* the output of the stage was used: the reformulated prompt was passed on
\* to the analysis, the analysis was posted
OutputUsed(stage) ==
    IF stage = "improve"
    THEN t_stages = <<"improve", "analysis">>
    ELSE \E n \in 1..Len(t_posts) : t_posts[n].kind = "output"

\* C21 as stated: a stage whose output is passed on or posted had its input
\* checked by the content guardrail
C21_StageInputsGuardrailChecked ==
    \A stage \in {"improve", "analysis"} : OutputUsed(stage) => GuardrailRanOn(stage)

(***************************************************************************)
(* Claims on process_message up to the semaphore (specification SpecMedia) *)
(***************************************************************************)
\* C15 as stated: after a failure on an attachment process_message does not
\* abort, and an audio file that failed has an entry marking it in the
\* context that reaches the agent
C15_AttachmentFailureNeverAborts ==
    m_failed # {} =>
        /\ ~(m_pc = "raised" /\ m_cause = "attachments")
        /\ (m_pc = "gate" /\ "audio" \in m_failed) =>
              \E n \in 1..Len(context_input) :
                  \/ context_input[n].kind = "audio_error"
                  \/ context_input[n].body = "error_text"

\* the documents were given and every step on them succeeded
DocsProcessed == m_in.docs /\ m_failed \cap {"status", "upload", "store"} = {}

\* the context the inputs and the outcomes call for: the text, one entry per
\* audio file in order, the summary of the documents processed (the text on
\* failed documents when there is nothing else), the history before it all
ExpectedContext(found) ==
    LET text == IF m_in.text = <<>> THEN <<>> ELSE <<[kind |-> "text", n |-> 0, body |-> "text"]>>
        audio == [n \in 1..Len(m_outcomes) |->
                    IF m_outcomes[n] = "empty"
                    THEN [kind |-> "audio_error", n |-> n, body |-> "none"]
                    ELSE [kind |-> "audio", n |-> n, body |-> m_outcomes[n]]]
        docs == IF DocsProcessed THEN <<[kind |-> "summary", n |-> 0, body |-> "text"]>>
                ELSE IF m_in.docs /\ text \o audio = <<>>
                THEN <<[kind |-> "docs_failed", n |-> 0, body |-> "text"]>>
                ELSE <<>>
        history == IF found
                   THEN <<[kind |-> "history", n |-> 0, body |-> "history"],
                          [kind |-> "latest", n |-> 0, body |-> "marker"]>>
                   ELSE <<>>
    IN history \o text \o audio \o docs

\* C16 as stated: the context handed on is the text, the audio entries in
\* attachment order, the document summary, with the history (when requested
\* and found) before the whole
C16_ContextInFixedOrder ==
    m_pc = "gate" =>
        \E found \in BOOLEAN :
            /\ found => m_in.history
            /\ context_input = ExpectedContext(found)

\* the text holds an echo phrase, in whatever case
HoldsEchoPhrase(text) ==
    \E phrase \in EchoPhrases : OccursIgnoringCase(phrase, text)

\* C17: a call whose text holds an echo phrase goes no further than the
\* channel check: nothing is posted or edited, no attachment is processed,
\* the semaphore is not reached and the vector stores are as they were
C17_EchoDroppedSilently ==
    (m_pc # "idle" /\ HoldsEchoPhrase(m_in.text)) =>
        /\ m_pc \in {"create_agent", "channel_check", "returned", "raised"}
        /\ m_says = 0
        /\ m_edits = 0
        /\ m_outcomes = <<>>
        /\ context_input = <<>>
        /\ thread_vector_stores = m_stores0

\* C17 witness: a text with an echo phrase in capitals, sent with audio and
\* documents in an allowed channel, was dropped
C17_Witness ==
    /\ m_pc = "returned"
    /\ m_cause = "echo"
    /\ m_in.text[1] = "A"
    /\ m_in.audio > 0
    /\ m_in.docs

(***************************************************************************)
(* Claims on _split_long_message (specification SpecSplit)                 *)
(***************************************************************************)
\* the characters of the separators and of the white space strip() removes
SeparatorChars == {".", " ", "\n"}

\* out is what is left of orig when separator characters are taken out of
\* it: nothing else is missing, nothing is added, the order is kept
RECURSIVE StripsTo(_, _)
StripsTo(orig, out) ==
    IF orig = <<>> THEN out = <<>>
    ELSE \/ /\ out # <<>>
            /\ Head(orig) = Head(out)
            /\ StripsTo(Tail(orig), Tail(out))
         \/ /\ Head(orig) \in SeparatorChars
            /\ StripsTo(Tail(orig), out)

\* C18 as stated: for a message longer than max_length the parts, put
\* together in order, are the message with separators stripped: no
\* character is lost, added or reordered
C18_PartsReproduceMessage ==
    (sp_pc = "done" /\ Len(sp_message) > sp_max_length)
        => StripsTo(sp_message, Concat(sp_parts))

\* C19 as stated: every part returned is at most max_length long
C19_PartsWithinMaxLength ==
    sp_pc = "done" => \A n \in 1..Len(sp_parts) : Len(sp_parts[n]) <= sp_max_length

\* C38: for a message longer than max_length that holds a character other
\* than white space, no part returned is empty.
C38_NoEmptyPart ==
    (/\ sp_pc = "done"
     /\ Len(sp_message) > sp_max_length
     /\ \E k \in 1..Len(sp_message) : sp_message[k] \notin Whitespace)
        => \A n \in 1..Len(sp_parts) : sp_parts[n] # <<>>

(***************************************************************************)
(* Claims on the token accounting (specification SpecTokens)               *)
(***************************************************************************)
RECURSIVE Accumulated(_)
\* the tokens the thread's first n messages consumed
Accumulated(n) == IF n = 0 THEN 0 ELSE Accumulated(n - 1) + tk_log[n].consumed

\* C23: with T the tokens the thread had accumulated and dT the tokens the
\* message consumed, the response carries a non-empty warning exactly when
\* T + dT >= TokenBudget, and the response goes to the send either way (what
\* becomes of it there is up to chat_update and say).
C23_WarningExactlyAtBudget ==
    \A n \in 1..Len(tk_log) :
        /\ (tk_log[n].memory_warning # "") <=> (Accumulated(n) >= TokenBudget)
        /\ tk_log[n].sent \in {"updating", "edit", "posting", "post", "never"}

\* C36: the token count charged to the thread for a message is the count of
\* its context input plus the count of its response text, hence positive
\* when the response text is non-empty.
C36_ChargedTokensAreEstimated ==
    \A n \in 1..Len(tk_log) : tk_log[n].total_tokens = tk_log[n].consumed

(***************************************************************************)
(* Claims on start_async of the server (specification SpecServer)          *)
(***************************************************************************)
\* start_async has stopped waiting and has returned or raised
ServerLeft == srv_pc \in {"returned", "raised", "failed", "failed_made"}

\* C30: when start_async returns or raises after its wait, no task it
\* created is pending: each one had completed by itself or has had cancel()
\* called and has been awaited to its end.
C30_PendingTasksCancelledAndAwaited ==
    ServerLeft =>
        \A t \in ServerTasks :
            /\ srv_tasks[t].state # "pending"
            /\ srv_tasks[t].cancel <=> srv_tasks[t].awaited

\* C30 witness: the shutdown event ended the wait, the handler task was
\* pending, was cancelled and awaited, and start_async returned
C30_Witness ==
    /\ srv_pc = "returned"
    /\ srv_tasks["shutdown_wait"].state = "returned"
    /\ srv_tasks["handler_task"].state = "cancelled"
    /\ srv_tasks["handler_task"].cancel /\ srv_tasks["handler_task"].awaited

(***************************************************************************)
(* Claims on the +think command and selection (specification SpecPending)  *)
(***************************************************************************)
\* C32: the analysis of a selection runs on the prompt and history of the
\* +think command that produced that selection, and while a conversation's
\* selection is open its pending prompt is the one stored: no other
\* conversation overwrites or clears it.
C32_SelectionRunsItsOwnPrompt ==
    \A c \in Conversations :
        /\ k_used[c] # 0 => k_used[c] = c
        /\ k_pc[c] = "asked" => _pending_think_message = c

(***************************************************************************)
(* Claims on the vector store of a thread (specification SpecStores)       *)
(***************************************************************************)
\* the stores created for the thread
CreatedStores == {i \in DocMessages : vs_used[i] = i}

\* C33: at most one vector store is created for a thread, and every
\* document message of the thread whose files reached a store put them in
\* the store of the thread's entry.
C33_OneStorePerThread ==
    /\ Cardinality(CreatedStores) <= 1
    /\ \A i \in DocMessages :
          (vs_pc[i] = "done") => vs_used[i] = vs_entry

(***************************************************************************)
(* Claims on the text the guardrail classifies (specification SpecExtract) *)
(***************************************************************************)
\* C34: the text submitted to the classifier contains the user's message
\* text, for the plain string and for the multimodal list alike; it is not
\* the empty text while the message is non-empty.
C34_ClassifierSeesUserText ==
    g_extract.pc = "submitted"
        => /\ Contains(strip(g_extract.message), Tail(g_extract.submitted))
           /\ (strip(g_extract.message) # <<>> => Tail(g_extract.submitted) # <<>>)

(***************************************************************************)
(* Claims on the cache manager (specification SpecCache)                   *)
(***************************************************************************)
\* C39: a check returns True exactly when the server is registered, its ttl
\* had expired and the check invalidated the tool cache and set the refresh
\* time to now (the time of the refresh); no check within a ttl of a True
\* result returns True; a check of an unregistered server returns False and
\* changes nothing.
C39_TrueMeansRefreshed ==
    \A n \in 1..Len(mcp_cache.results) :
        LET r == mcp_cache.results[n]
        IN r.kind = "check" =>
           /\ r.result => (r.registered /\ r.invalidated /\ r.last_refresh = r.ret)
           /\ r.invalidated => r.result
           /\ ~r.registered => (~r.result /\ ~r.changed)
           /\ \A k \in (n + 1)..Len(mcp_cache.results) :
                 LET later == mcp_cache.results[k]
                 IN (r.result /\ later.kind = "check"
                        /\ later.at - r.ret <= RegisteredTtl) => ~later.result

(***************************************************************************)
(* Specifications                                                          *)
(***************************************************************************)
Init == InitEvents /\ InitPM /\ InitGuard /\ InitStream /\ InitDetect /\ InitThink
            /\ InitMedia /\ InitSplit /\ InitTokens
            /\ InitServer
            /\ InitPending
            /\ InitStores
            /\ InitExtract
            /\ InitCache
            /\ pwatch = 1

Next == NextEvents

Spec == Init /\ [][Next]_vars

\* process_message of the server alone; the handlers are at rest
InitOnlyPM ==
    /\ InitEvents /\ agent = "ready" /\ watched = <<"D1", 1, "U1">>
    /\ InitPM /\ InitGuard /\ InitStream /\ InitDetect /\ InitThink /\ InitMedia
    /\ InitSplit
    /\ InitTokens
    /\ InitServer
    /\ InitPending
    /\ InitStores
    /\ InitExtract
    /\ InitCache

SpecPM == InitOnlyPM /\ [][NextPM]_vars

\* the same, the history following the first invocation
InitWatchFirst == InitOnlyPM /\ pwatch = 1

SpecWatchFirst == InitWatchFirst /\ [][NextPM]_vars

\* every awaited call of a started invocation returns or raises, and the
\* event loop does not stop while a coroutine is ready: some started
\* invocation takes a step as long as one can (a step of an invocation
\* changes the variables of varsPM alone)
FairSpecPM == SpecWatchFirst /\ WF_varsPM(\E i \in Invocations : StepPM(i))

\* the guardrail alone
InitOnlyGuard == InitWatchFirst

SpecGuard == InitOnlyGuard /\ [][NextGuard]_vars

\* process_message of the agent alone
SpecStream == InitOnlyGuard /\ [][NextStream]_vars

\* get_mcp_by_keywords alone
SpecDetect == InitOnlyGuard /\ [][NextDetect]_vars

\* process_think_message alone
SpecThink == InitOnlyGuard /\ [][NextThink]_vars

\* process_message of the server up to the semaphore, alone
SpecMedia == InitOnlyGuard /\ [][NextMedia]_vars

\* _split_long_message alone
SpecSplit == InitOnlyGuard /\ [][NextSplit]_vars

\* the token accounting of process_message alone
SpecTokens == InitOnlyGuard /\ [][NextTokens]_vars

\* start_async and stop_async of the server alone
SpecServer == InitOnlyGuard /\ [][NextServer]_vars

\* the +think command and its selection alone
SpecPending == InitOnlyGuard /\ [][NextPending]_vars

\* the document messages of one thread alone
SpecStores == InitOnlyGuard /\ [][NextStores]_vars

\* the preparation of an input and the extraction of its text alone
SpecExtract == InitOnlyGuard /\ [][NextExtract]_vars

\* the cache manager alone
SpecCache == InitOnlyGuard /\ [][NextCache]_vars

=============================================================================
